---- MODULE Spec2Model ----
(***************************************************************************)
(* A model of the Flare compiler (mthibeaultthuot/flare): the parser that  *)
(* turns a token buffer into the AST, and the Metal code generator         *)
(* (TypeConverter, ExprGenerator, StmtGenerator, KernelGenerator) that     *)
(* turns the AST into Metal Shading Language text.                         *)
(*                                                                         *)
(* Conventions.                                                            *)
(*   Option<T>       None is <<>>, Some(v) is <<v>>.                       *)
(*   Result<T>       [ok |-> TRUE, val |-> v, err |-> NoErr] or            *)
(*                   [ok |-> FALSE, val |-> <<>>, err |-> e].              *)
(*   Range<usize>    a span is the pair <<start, end>>.                    *)
(*   String          a TLA+ string; text made of whole lines is the        *)
(*                   sequence of its lines, each without its "\n".         *)
(*   i64             four 16-bit limbs, least significant first, in two's  *)
(*                   complement; u32 is the two low limbs.                 *)
(***************************************************************************)
EXTENDS Integers, Sequences, FiniteSets, TLC

VARIABLES
    queue,         \* the calls still to be made, in order
    lexer,         \* the caller's Lexer: its input and how far it has read
    parser,        \* the caller's Parser: its tokens and its cursor
    config,        \* KernelGenerator.config
    stmt_gen,      \* KernelGenerator.stmt_gen.indent_level
    indent_level,  \* StmtGenerator.indent_level of the caller's own generator
    parsed,        \* what Flare::compile_from_string returned last
    last,          \* the call made last (its operation and arguments)
    result         \* what that call returned

vars == <<queue, lexer, parser, config, stmt_gen, indent_level, parsed, last, result>>

----------------------------------------------------------------------------
(* Option and Result *)

None == <<>>

Some(v) == <<v>>

IsSome(o) == o # <<>>

Unwrap(o) == o[1]

NoErr == [kind |-> "", message |-> "", span |-> <<0, 0>>]

Ok(v) == [ok |-> TRUE, val |-> v, err |-> NoErr]

Err(e) == [ok |-> FALSE, val |-> <<>>, err |-> e]

\* The `?` operator: the continuation on Ok's value, or the error returned.
Try(r, K(_)) == IF r.ok THEN K(r.val) ELSE r

----------------------------------------------------------------------------
(* Strings *)

RECURSIVE Repeat(_, _)
Repeat(s, n) == IF n = 0 THEN "" ELSE s \o Repeat(s, n - 1)

RECURSIVE Join(_, _)
Join(parts, sep) ==
    IF Len(parts) = 0 THEN ""
    ELSE IF Len(parts) = 1 THEN parts[1]
    ELSE parts[1] \o sep \o Join(Tail(parts), sep)

RECURSIVE StrContains(_, _)
StrContains(s, c) ==
    IF Len(s) = 0 THEN FALSE
    ELSE SubSeq(s, 1, 1) = c \/ StrContains(SubSeq(s, 2, Len(s)), c)

EndsWith(s, c) == Len(s) > 0 /\ SubSeq(s, Len(s), Len(s)) = c

StartsWith(s, p) == Len(s) >= Len(p) /\ SubSeq(s, 1, Len(p)) = p

----------------------------------------------------------------------------
(* i64 and u32 *)

LimbBase == 2 ^ 16

I64(n) == <<n % LimbBase, n \div LimbBase, 0, 0>>

I64Neg(n) == <<LimbBase - n, LimbBase - 1, LimbBase - 1, LimbBase - 1>>

I64High(n) == <<0, 0, n, 0>>

U32(n) == <<n % LimbBase, n \div LimbBase>>

AsU32(v) == <<v[1], v[2]>>

I64IsNegative(v) == v[4] >= LimbBase \div 2

I64FitsU32(v) == v[3] = 0 /\ v[4] = 0

RECURSIVE LimbsNegate(_, _, _)
LimbsNegate(v, i, carry) ==
    IF i > Len(v) THEN <<>>
    ELSE <<((LimbBase - 1 - v[i]) + carry) % LimbBase>>
             \o LimbsNegate(v, i + 1, ((LimbBase - 1 - v[i]) + carry) \div LimbBase)

\* one step of the long division: the limb's quotient digit behind the rest
LimbsDivStep(rest, cur) == [q |-> rest.q \o <<cur \div 10>>, r |-> rest.r]

RECURSIVE LimbsDiv10(_, _, _)
LimbsDiv10(v, i, carry) ==
    IF i = 0 THEN [q |-> <<>>, r |-> carry]
    ELSE LimbsDivStep(LimbsDiv10(v, i - 1, (carry * LimbBase + v[i]) % 10),
                      carry * LimbBase + v[i])

LimbsZero(v) == \A i \in 1..Len(v) : v[i] = 0

RECURSIVE MagToString(_)
MagDigits(d) == MagToString(d.q) \o ToString(d.r)

MagToString(v) == IF LimbsZero(v) THEN "" ELSE MagDigits(LimbsDiv10(v, Len(v), 0))

I64ToString(v) ==
    IF LimbsZero(v) THEN "0"
    ELSE IF I64IsNegative(v) THEN "-" \o MagToString(LimbsNegate(v, 1, 1))
    ELSE MagToString(v)

U32ToString(v) == IF LimbsZero(v) THEN "0" ELSE MagToString(v)

\* Display of a usize holding the bits of an i64
UsizeToString(v) == IF LimbsZero(v) THEN "0" ELSE MagToString(v)

----------------------------------------------------------------------------
(* AST: types (flare/src/ast/types.rs) *)

TyI32 == [tag |-> "I32"]

TyI64 == [tag |-> "I64"]

TyU32 == [tag |-> "U32"]

TyU64 == [tag |-> "U64"]

TyF32 == [tag |-> "F32"]

TyF64 == [tag |-> "F64"]

TyBool == [tag |-> "Bool"]

TyNamed(n) == [tag |-> "Named", name |-> n]

TyVector(d, l) == [tag |-> "Vector", dtype |-> d, len |-> l]

TyMatrix(d, r, c) == [tag |-> "Matrix", dtype |-> d, rows |-> r, cols |-> c]

TyTensor(d, sh) == [tag |-> "Tensor", dtype |-> d, shape |-> sh]

TyPtr(d) == [tag |-> "Ptr", dtype |-> d]

TyArray(d, sz) == [tag |-> "Array", dtype |-> d, size |-> sz]

----------------------------------------------------------------------------
(* CodegenError constructors (flare-codegen-metal/src/error.rs) *)

unsupported_type(message, span) ==
    [kind |-> "UnsupportedType", message |-> message, span |-> span]

unsupported_feature(feature, span) ==
    [kind |-> "UnsupportedFeature", message |-> feature, span |-> span]

invalid_kernel_config(message, span) ==
    [kind |-> "InvalidKernelConfig", message |-> message, span |-> span]

invalid_memory_config(message, span) ==
    [kind |-> "InvalidMemoryConfig", message |-> message, span |-> span]

expression_error(message, span) ==
    [kind |-> "ExpressionError", message |-> message, span |-> span]

statement_error(message, span) ==
    [kind |-> "StatementError", message |-> message, span |-> span]

----------------------------------------------------------------------------
(* TypeConverter (flare-codegen-metal/src/types.rs) *)

MetalType_new(msl) == [msl_type |-> msl, size_bytes |-> None, alignment |-> None]

MetalType_with_layout(msl, size, align) ==
    [msl_type |-> msl, size_bytes |-> Some(size), alignment |-> Some(align)]

DigitValue(c) ==
    CASE c = "0" -> 0 [] c = "1" -> 1 [] c = "2" -> 2 [] c = "3" -> 3
      [] c = "4" -> 4 [] c = "5" -> 5 [] c = "6" -> 6 [] c = "7" -> 7
      [] c = "8" -> 8 [] c = "9" -> 9 [] OTHER -> -1

RECURSIVE ParseDigits(_, _)
ParseDigits(s, acc) ==
    IF Len(s) = 0 THEN acc
    ELSE IF DigitValue(SubSeq(s, 1, 1)) < 0 THEN -1
    ELSE ParseDigits(SubSeq(s, 2, Len(s)), acc * 10 + DigitValue(SubSeq(s, 1, 1)))

\* str::parse::<usize>: an optional "+", then one or more decimal digits.
\* -1 stands for Err(ParseIntError).
parse_usize(s) ==
    IF StartsWith(s, "+")
    THEN IF Len(s) = 1 THEN -1 ELSE ParseDigits(SubSeq(s, 2, Len(s)), 0)
    ELSE IF Len(s) = 0 THEN -1 ELSE ParseDigits(s, 0)

is_known_metal_type(name) ==
    name \in { "int", "uint", "float", "double", "bool", "short", "ushort",
               "char", "uchar", "long", "ulong", "half", "size_t", "ptrdiff_t",
               "int2", "int3", "int4", "uint2", "uint3", "uint4",
               "float2", "float3", "float4", "half2", "half3", "half4",
               "float2x2", "float3x3", "float4x4",
               "half2x2", "half3x3", "half4x4" }

parse_dimension(dim, name, span) ==
    IF IsSome(dim)
    THEN IF parse_usize(Unwrap(dim)) >= 0
         THEN Ok(parse_usize(Unwrap(dim)))
         ELSE Err(unsupported_type("invalid matrix dimension for " \o name, span))
    ELSE Err(unsupported_type("matrix " \o name \o " dimension required in Metal", span))

\* the match of convert_vector on the length: "" stands for the `_` arm
vector_length(l) ==
    IF l \in {"2", "x"} THEN "2"
    ELSE IF l \in {"3", "y"} THEN "3"
    ELSE IF l \in {"4", "z"} THEN "4"
    ELSE IF parse_usize(l) \in {2, 3, 4} THEN ToString(parse_usize(l))
    ELSE ""

\* convert_vector_of accepting every scalar base, `long` and `half` included
convert_vector_of_any_scalar(base_type, len, span) ==
    IF ~IsSome(len)
    THEN Err(unsupported_type("vector type requires explicit length in Metal", span))
    ELSE IF vector_length(Unwrap(len)) = ""
    THEN Err(unsupported_type("Metal only supports vector lengths 2, 3, 4", span))
    ELSE IF base_type.msl_type \notin { "int", "uint", "float", "double", "bool", "long",
                                        "half", "short", "ushort", "char", "uchar" }
    THEN Err(unsupported_type("cannot create vector of type", span))
    ELSE Ok(MetalType_new(base_type.msl_type \o vector_length(Unwrap(len))))

convert_vector_of(base_type, len, span) ==
    IF ~IsSome(len)
    THEN Err(unsupported_type("vector type requires explicit length in Metal", span))
    ELSE IF vector_length(Unwrap(len)) = ""
    THEN Err(unsupported_type("Metal only supports vector lengths 2, 3, 4", span))
    ELSE IF base_type.msl_type \notin { "int", "uint", "float", "double", "bool",
                                        "short", "ushort", "char", "uchar" }
    THEN Err(unsupported_type("cannot create vector of type", span))
    ELSE Ok(MetalType_new(base_type.msl_type \o vector_length(Unwrap(len))))

\* convert_matrix_of naming the matrix rows first
convert_matrix_of_rows_first(base_type, rows, cols, span) ==
    IF base_type.msl_type \notin {"float", "half"}
    THEN Err(unsupported_type("Metal matrices only support float/half", span))
    ELSE Try(parse_dimension(rows, "rows", span), LAMBDA rows_num :
         Try(parse_dimension(cols, "cols", span), LAMBDA cols_num :
             IF rows_num \notin 2..4 \/ cols_num \notin 2..4
             THEN Err(unsupported_type("Metal matrices must be 2x2 to 4x4", span))
             ELSE Ok(MetalType_new(base_type.msl_type \o ToString(rows_num)
                                   \o "x" \o ToString(cols_num)))))

convert_matrix_of(base_type, rows, cols, span) ==
    IF base_type.msl_type \notin {"float", "half"}
    THEN Err(unsupported_type("Metal matrices only support float/half", span))
    ELSE Try(parse_dimension(rows, "rows", span), LAMBDA rows_num :
         Try(parse_dimension(cols, "cols", span), LAMBDA cols_num :
             IF rows_num \notin 2..4 \/ cols_num \notin 2..4
             THEN Err(unsupported_type("Metal matrices must be 2x2 to 4x4", span))
             ELSE Ok(MetalType_new(base_type.msl_type \o ToString(cols_num)
                                   \o "x" \o ToString(rows_num)))))

RECURSIVE convert(_, _)
convert_vector(dtype, len, span) ==
    Try(convert(dtype, span), LAMBDA base_type : convert_vector_of(base_type, len, span))

convert_matrix(dtype, rows, cols, span) ==
    Try(convert(dtype, span), LAMBDA base_type :
        convert_matrix_of(base_type, rows, cols, span))

convert_pointer(dtype, span) ==
    Try(convert(dtype, span), LAMBDA inner_type :
        Ok(MetalType_new("device " \o inner_type.msl_type \o "*")))

convert_array(dtype, size, span) ==
    Try(convert(dtype, span), LAMBDA elem_type :
        IF IsSome(size)
        THEN Ok(MetalType_new(elem_type.msl_type \o "[" \o UsizeToString(Unwrap(size)) \o "]"))
        ELSE Ok(MetalType_new("device " \o elem_type.msl_type \o "*")))

convert(ty, span) ==
    CASE ty.tag = "I32" -> Ok(MetalType_with_layout("int", 4, 4))
      [] ty.tag = "I64" -> Ok(MetalType_with_layout("long", 8, 8))
      [] ty.tag = "U32" -> Ok(MetalType_with_layout("uint", 4, 4))
      [] ty.tag = "U64" -> Ok(MetalType_with_layout("ulong", 8, 8))
      [] ty.tag = "F32" -> Ok(MetalType_with_layout("float", 4, 4))
      [] ty.tag = "F64" -> Ok(MetalType_with_layout("double", 8, 8))
      [] ty.tag = "Bool" -> Ok(MetalType_with_layout("bool", 1, 1))
      [] ty.tag = "Vector" -> convert_vector(ty.dtype, ty.len, span)
      [] ty.tag = "Matrix" -> convert_matrix(ty.dtype, ty.rows, ty.cols, span)
      [] ty.tag = "Ptr" -> convert_pointer(ty.dtype, span)
      [] ty.tag = "Array" -> convert_array(ty.dtype, ty.size, span)
      [] ty.tag = "Tensor" -> convert_pointer(ty.dtype, span)
      [] ty.tag = "Named" ->
            IF is_known_metal_type(ty.name)
            THEN Ok(MetalType_new(ty.name))
            ELSE Err(unsupported_type("unknown type '" \o ty.name \o "'", span))

----------------------------------------------------------------------------
(* AST: expressions (flare/src/ast/expr.rs) *)

\* An f64 literal by its Display text: whole part, fraction digits ("" when
\* fract() == 0), or one of the specials "NaN" and "inf".
F64(whole, frac) == [whole |-> whole, frac |-> frac, special |-> ""]

F64Special(name) == [whole |-> 0, frac |-> "", special |-> name]

F64ToString(v) ==
    IF v.special # "" THEN v.special
    ELSE IF v.frac = "" THEN ToString(v.whole)
    ELSE ToString(v.whole) \o "." \o v.frac

F64FractIsZero(v) == v.special = "" /\ v.frac = ""

IntLiteral(v, span) == [tag |-> "IntLiteral", val |-> v, span |-> span]

FloatLiteral(v, span) == [tag |-> "FloatLiteral", val |-> v, span |-> span]

StringLiteral(v, span) == [tag |-> "StringLiteral", val |-> v, span |-> span]

BoolLiteral(v, span) == [tag |-> "BoolLiteral", val |-> v, span |-> span]

Ident(name, span) == [tag |-> "Ident", name |-> name, span |-> span]

Binary(left, op, right, span) ==
    [tag |-> "Binary", left |-> left, op |-> op, right |-> right, span |-> span]

Unary(op, expr, span) == [tag |-> "Unary", op |-> op, expr |-> expr, span |-> span]

Call(func, args, span) == [tag |-> "Call", func |-> func, args |-> args, span |-> span]

Member(object, field, span) ==
    [tag |-> "Member", object |-> object, field |-> field, span |-> span]

Index(object, indices, span) ==
    [tag |-> "Index", object |-> object, indices |-> indices, span |-> span]

RangeExpr(start, end, span) ==
    [tag |-> "Range", start |-> start, end |-> end, span |-> span]

ArrayExpr(elements, span) == [tag |-> "Array", elements |-> elements, span |-> span]

TensorInit(dtype, shape, span) ==
    [tag |-> "TensorInit", dtype |-> dtype, shape |-> shape, span |-> span]

IfExpr(condition, then_branch, else_branch, span) ==
    [tag |-> "If", condition |-> condition, then_branch |-> then_branch,
     else_branch |-> else_branch, span |-> span]

BlockExpr(statements, span) ==
    [tag |-> "Block", statements |-> statements, span |-> span]

Assign(target, value, span) ==
    [tag |-> "Assign", target |-> target, value |-> value, span |-> span]

CompoundAssign(target, op, value, span) ==
    [tag |-> "CompoundAssign", target |-> target, op |-> op, value |-> value,
     span |-> span]

Cast(expr, target_type, span) ==
    [tag |-> "Cast", expr |-> expr, target_type |-> target_type, span |-> span]

ThreadIdx(dim, span) == [tag |-> "ThreadIdx", dim |-> dim, span |-> span]

BlockIdx(dim, span) == [tag |-> "BlockIdx", dim |-> dim, span |-> span]

BlockDim(dim, span) == [tag |-> "BlockDim", dim |-> dim, span |-> span]

BinOps == { "Add", "Sub", "Mul", "Div", "Mod", "Equal", "NotEqual", "Less",
            "Greater", "LessEqual", "GreaterEqual", "And", "Or" }

----------------------------------------------------------------------------
(* ExprGenerator (flare-codegen-metal/src/expr.rs) *)

binop_to_string(op) ==
    CASE op = "Add" -> "+" [] op = "Sub" -> "-" [] op = "Mul" -> "*"
      [] op = "Div" -> "/" [] op = "Mod" -> "%" [] op = "Equal" -> "=="
      [] op = "NotEqual" -> "!=" [] op = "Less" -> "<" [] op = "Greater" -> ">"
      [] op = "LessEqual" -> "<=" [] op = "GreaterEqual" -> ">="
      [] op = "And" -> "&&" [] op = "Or" -> "||"

\* generate_thread_idx, generate_block_idx and generate_block_dim: the same
\* match on dim, each with its own Metal built-in.
generate_builtin_dim(builtin, what, dim, span) ==
    IF ~IsSome(dim) THEN Ok(builtin)
    ELSE IF Unwrap(dim) \in {"x", "0"} THEN Ok(builtin \o ".x")
    ELSE IF Unwrap(dim) \in {"y", "1"} THEN Ok(builtin \o ".y")
    ELSE IF Unwrap(dim) \in {"z", "2"} THEN Ok(builtin \o ".z")
    ELSE Err(expression_error("invalid " \o what \o " dimension: " \o Unwrap(dim), span))

generate_thread_idx(dim, span) ==
    generate_builtin_dim("thread_position_in_threadgroup", "thread_idx", dim, span)

generate_block_idx(dim, span) ==
    generate_builtin_dim("threadgroup_position_in_grid", "block_idx", dim, span)

generate_block_dim(dim, span) ==
    generate_builtin_dim("threads_per_threadgroup", "block_dim", dim, span)

generate_float_literal(val) ==
    IF F64FractIsZero(val) THEN F64ToString(val) \o ".0f" ELSE F64ToString(val) \o "f"

unsupported_expr(expr) ==
    CASE expr.tag = "StringLiteral" -> unsupported_feature("string literals", expr.span)
      [] expr.tag = "Range" -> unsupported_feature("range expressions", expr.span)
      [] expr.tag = "TensorInit" -> unsupported_feature("tensor initialization", expr.span)
      [] expr.tag = "Block" -> unsupported_feature("block expressions", expr.span)

RejectedTags == {"StringLiteral", "Range", "TensorInit", "Block"}

is_rejected_variant(expr) == expr.tag \in RejectedTags

RECURSIVE ExprGenerator_generate(_)
RECURSIVE generate_each(_)

\* `for e in es { v.push(self.generate(e)?) }`: the texts in order, or the
\* first error.
generate_each(exprs) ==
    IF Len(exprs) = 0 THEN Ok(<<>>)
    ELSE Try(ExprGenerator_generate(exprs[1]), LAMBDA head :
         Try(generate_each(Tail(exprs)), LAMBDA rest : Ok(<<head>> \o rest)))

\* generate_binary emitting the right operand before the left one
generate_binary_right_first(left, op, right, span) ==
    Try(ExprGenerator_generate(right), LAMBDA right_code :
    Try(ExprGenerator_generate(left), LAMBDA left_code :
        Ok("(" \o left_code \o " " \o binop_to_string(op) \o " " \o right_code \o ")")))

generate_binary(left, op, right, span) ==
    Try(ExprGenerator_generate(left), LAMBDA left_code :
    Try(ExprGenerator_generate(right), LAMBDA right_code :
        Ok("(" \o left_code \o " " \o binop_to_string(op) \o " " \o right_code \o ")")))

generate_unary(op, expr, span) ==
    Try(ExprGenerator_generate(expr), LAMBDA expr_code :
        Ok("(" \o (IF op = "Neg" THEN "-" ELSE "!") \o expr_code \o ")"))

generate_call(func, args, span) ==
    Try(ExprGenerator_generate(func), LAMBDA func_code :
    Try(generate_each(args), LAMBDA args_code :
        Ok(func_code \o "(" \o Join(args_code, ", ") \o ")")))

generate_member(object, field, span) ==
    Try(ExprGenerator_generate(object), LAMBDA object_code :
        Ok(object_code \o "." \o field))

generate_index(object, indices, span) ==
    Try(ExprGenerator_generate(object), LAMBDA object_code :
    Try(generate_each(indices), LAMBDA indices_code :
        IF Len(indices) = 0 THEN Ok(object_code)
        ELSE Ok(object_code \o "[" \o Join(indices_code, "][") \o "]")))

generate_array(elements, span) ==
    Try(generate_each(elements), LAMBDA elements_code :
        Ok("{ " \o Join(elements_code, ", ") \o " }"))

generate_if_expr(condition, then_branch, else_branch, span) ==
    Try(ExprGenerator_generate(condition), LAMBDA cond_code :
    Try(ExprGenerator_generate(then_branch), LAMBDA then_code :
        IF IsSome(else_branch)
        THEN Try(ExprGenerator_generate(Unwrap(else_branch)), LAMBDA else_code :
                 Ok("(" \o cond_code \o " ? " \o then_code \o " : " \o else_code \o ")"))
        ELSE Err(expression_error(
                 "if expression requires else branch for ternary operator", span))))

generate_assign(target, value) ==
    Try(ExprGenerator_generate(target), LAMBDA target_code :
    Try(ExprGenerator_generate(value), LAMBDA value_code :
        Ok(target_code \o " = " \o value_code)))

generate_compound_assign(target, op, value) ==
    Try(ExprGenerator_generate(target), LAMBDA target_code :
    Try(ExprGenerator_generate(value), LAMBDA value_code :
        Ok(target_code \o " " \o binop_to_string(op) \o "= " \o value_code)))

generate_cast(expr, target_type, span) ==
    Try(ExprGenerator_generate(expr), LAMBDA expr_code :
    Try(convert(target_type, span), LAMBDA type_code :
        Ok(type_code.msl_type \o "(" \o expr_code \o ")")))

ExprGenerator_generate(expr) ==
    CASE expr.tag = "IntLiteral" -> Ok(I64ToString(expr.val))
      [] expr.tag = "FloatLiteral" -> Ok(generate_float_literal(expr.val))
      [] expr.tag = "BoolLiteral" -> Ok(IF expr.val THEN "true" ELSE "false")
      [] expr.tag = "Ident" -> Ok(expr.name)
      [] expr.tag = "Binary" -> generate_binary(expr.left, expr.op, expr.right, expr.span)
      [] expr.tag = "Unary" -> generate_unary(expr.op, expr.expr, expr.span)
      [] expr.tag = "Call" -> generate_call(expr.func, expr.args, expr.span)
      [] expr.tag = "Member" -> generate_member(expr.object, expr.field, expr.span)
      [] expr.tag = "Index" -> generate_index(expr.object, expr.indices, expr.span)
      [] expr.tag = "Array" -> generate_array(expr.elements, expr.span)
      [] expr.tag = "If" ->
            generate_if_expr(expr.condition, expr.then_branch, expr.else_branch, expr.span)
      [] expr.tag = "Assign" -> generate_assign(expr.target, expr.value)
      [] expr.tag = "CompoundAssign" ->
            generate_compound_assign(expr.target, expr.op, expr.value)
      [] expr.tag = "Cast" -> generate_cast(expr.expr, expr.target_type, expr.span)
      [] expr.tag = "ThreadIdx" -> generate_thread_idx(expr.dim, expr.span)
      [] expr.tag = "BlockIdx" -> generate_block_idx(expr.dim, expr.span)
      [] expr.tag = "BlockDim" -> generate_block_dim(expr.dim, expr.span)
      [] is_rejected_variant(expr) -> Err(unsupported_expr(expr))

----------------------------------------------------------------------------
(* AST: statements (flare/src/ast/stmt.rs) *)

Param(name, ty, span) == [name |-> name, ty |-> ty, span |-> span]

KernelStmt(kernel) == [tag |-> "Kernel", kernel |-> kernel, span |-> kernel.span]

FusionStmt(fusion) == [tag |-> "Fusion", fusion |-> fusion, span |-> fusion.span]

ScheduleStmt(schedule) ==
    [tag |-> "Schedule", schedule |-> schedule, span |-> schedule.span]

FunctionStmt(name, params, return_type, body, span) ==
    [tag |-> "Function", name |-> name, params |-> params,
     return_type |-> return_type, body |-> body, span |-> span]

LetStmt(name, ty, value, span) ==
    [tag |-> "Let", name |-> name, ty |-> ty, value |-> value, span |-> span]

VarStmt(name, ty, value, span) ==
    [tag |-> "Var", name |-> name, ty |-> ty, value |-> value, span |-> span]

ConstStmt(name, ty, value, span) ==
    [tag |-> "Const", name |-> name, ty |-> ty, value |-> value, span |-> span]

IfStmt(condition, then_branch, else_branch, span) ==
    [tag |-> "If", condition |-> condition, then_branch |-> then_branch,
     else_branch |-> else_branch, span |-> span]

WhileStmt(condition, body, span) ==
    [tag |-> "While", condition |-> condition, body |-> body, span |-> span]

ForStmt(var, iterator, body, span) ==
    [tag |-> "For", var |-> var, iterator |-> iterator, body |-> body, span |-> span]

ReturnStmt(value, span) == [tag |-> "Return", value |-> value, span |-> span]

ExprStmt(expr) == [tag |-> "Expr", expr |-> expr, span |-> expr.span]

BlockStmt(statements, span) ==
    [tag |-> "Block", statements |-> statements, span |-> span]

SyncThreads(span) == [tag |-> "SyncThreads", span |-> span]

LoadShared(dest, src, span) ==
    [tag |-> "LoadShared", dest |-> dest, src |-> src, span |-> span]

TypeDef(name, ty, span) == [tag |-> "TypeDef", name |-> name, ty |-> ty, span |-> span]

----------------------------------------------------------------------------
(* StmtGenerator (flare-codegen-metal/src/stmt.rs)                         *)
(* Every operation takes the indentation level it starts at and returns,   *)
(* beside its Result, the level it leaves in self.indent_level.            *)

SOk(lines, level) == [ok |-> TRUE, val |-> lines, err |-> NoErr, level |-> level]

SErr(e, level) == [ok |-> FALSE, val |-> <<>>, err |-> e, level |-> level]

set_indent(level) == level

indent(level) == level + 1

dedent(level) == IF level > 0 THEN level - 1 ELSE level

get_indent(level) == Repeat("    ", level)

\* `expr?` inside a statement operation: the error leaves self.indent_level
\* where it is.
TryAt(r, level, K(_)) == IF r.ok THEN K(r.val) ELSE SErr(r.err, level)

\* `self.generate(stmt)?`: the continuation on the text and the level left.
TryStmt(r, K(_, _)) == IF r.ok THEN K(r.val, r.level) ELSE r

RECURSIVE function_params(_)
\* `for param in params { param_strs.push(format!("{} {}", convert(..)?, name)) }`
function_params(params) ==
    IF Len(params) = 0 THEN Ok(<<>>)
    ELSE Try(convert(params[1].ty, params[1].span), LAMBDA param_type :
         Try(function_params(Tail(params)), LAMBDA rest :
             Ok(<<param_type.msl_type \o " " \o params[1].name>> \o rest)))

function_return_type(return_type, span) ==
    IF IsSome(return_type)
    THEN Try(convert(Unwrap(return_type), span), LAMBDA ty : Ok(ty.msl_type))
    ELSE Ok("void")

generate_function(name, params, return_type, body, span, level) ==
    TryAt(function_return_type(return_type, span), level, LAMBDA ret_type :
    TryAt(function_params(params), level, LAMBDA param_strs :
    TryAt(ExprGenerator_generate(body), level, LAMBDA body_code :
        SOk(<< get_indent(level) \o ret_type \o " " \o name \o "("
                   \o Join(param_strs, ", ") \o ")" \o " {",
               get_indent(indent(level)) \o "return " \o body_code \o ";",
               get_indent(dedent(indent(level))) \o "}" >>,
            dedent(indent(level))))))

\* generate_let and generate_const: the value first, then the type.
generate_binding(keyword, name, ty, value, level) ==
    TryAt(ExprGenerator_generate(value), level, LAMBDA value_code :
        IF IsSome(ty)
        THEN TryAt(convert(Unwrap(ty), value.span), level, LAMBDA type_code :
                 SOk(<< get_indent(level) \o keyword \o " " \o type_code.msl_type
                        \o " " \o name \o " = " \o value_code \o ";" >>, level))
        ELSE SOk(<< get_indent(level) \o keyword \o " auto " \o name \o " = "
                    \o value_code \o ";" >>, level))

generate_let(name, ty, value, level) == generate_binding("const", name, ty, value, level)

generate_const(name, ty, value, level) ==
    generate_binding("constant", name, ty, value, level)

generate_var(name, ty, value, level) ==
    IF IsSome(ty) /\ IsSome(value)
    THEN TryAt(convert(Unwrap(ty), Unwrap(value).span), level, LAMBDA type_code :
         TryAt(ExprGenerator_generate(Unwrap(value)), level, LAMBDA value_code :
             SOk(<< get_indent(level) \o type_code.msl_type \o " " \o name \o " = "
                    \o value_code \o ";" >>, level)))
    ELSE IF IsSome(ty)
    THEN TryAt(convert(Unwrap(ty), <<0, 0>>), level, LAMBDA type_code :
             SOk(<< get_indent(level) \o type_code.msl_type \o " " \o name \o ";" >>,
                 level))
    ELSE IF IsSome(value)
    THEN TryAt(ExprGenerator_generate(Unwrap(value)), level, LAMBDA value_code :
             SOk(<< get_indent(level) \o "auto " \o name \o " = " \o value_code
                    \o ";" >>, level))
    ELSE SErr(statement_error("var statement requires either type or value", <<0, 0>>),
              level)

generate_return(value, level) ==
    IF IsSome(value)
    THEN TryAt(ExprGenerator_generate(Unwrap(value)), level, LAMBDA expr_code :
             SOk(<< get_indent(level) \o "return " \o expr_code \o ";" >>, level))
    ELSE SOk(<< get_indent(level) \o "return;" >>, level)

generate_expr_stmt(expr, level) ==
    TryAt(ExprGenerator_generate(expr), level, LAMBDA expr_code :
        SOk(<< get_indent(level) \o expr_code \o ";" >>, level))

generate_sync_threads(level) ==
    SOk(<< get_indent(level) \o "threadgroup_barrier(mem_flags::mem_threadgroup);" >>, level)

generate_load_shared(dest, src, level) ==
    TryAt(ExprGenerator_generate(src), level, LAMBDA src_code :
        SOk(<< get_indent(level) \o dest \o " = " \o src_code \o ";" >>, level))

\* `match start { Some(s) => self.expr_gen.generate(s)?, None => "0" }`
for_start_code(start) ==
    IF IsSome(start) THEN ExprGenerator_generate(Unwrap(start)) ELSE Ok("0")

\* `match end { Some(e) => self.expr_gen.generate(e)?, None => return Err(..) }`
for_end_code(end, span) ==
    IF IsSome(end) THEN ExprGenerator_generate(Unwrap(end))
    ELSE Err(statement_error("for loop range requires end value", span))

\* generate_for_header looking at the end of the range before its start
generate_for_header_end_first(var, iterator, span) ==
    IF iterator.tag = "Range"
    THEN Try(for_end_code(iterator.end, span), LAMBDA end_code :
         Try(for_start_code(iterator.start), LAMBDA start_code :
             Ok("for (int " \o var \o " = " \o start_code \o "; "
                \o var \o " < " \o end_code \o "; " \o var \o "++) {")))
    ELSE Err(statement_error("for loop iterator must be a range expression in Metal codegen",
                             span))

\* The header of generate_for: the texts of the range's start and end.
generate_for_header(var, iterator, span) ==
    IF iterator.tag = "Range"
    THEN Try(for_start_code(iterator.start), LAMBDA start_code :
         Try(for_end_code(iterator.end, span), LAMBDA end_code :
             Ok("for (int " \o var \o " = " \o start_code \o "; "
                \o var \o " < " \o end_code \o "; " \o var \o "++) {")))
    ELSE Err(statement_error(
             "for loop iterator must be a range expression in Metal codegen", span))

RECURSIVE StmtGenerator_generate(_, _)
RECURSIVE generate_stmts(_, _)

\* `for stmt in stmts { output.push_str(&self.generate(stmt)?) }`
generate_stmts(stmts, level) ==
    IF Len(stmts) = 0 THEN SOk(<<>>, level)
    ELSE TryStmt(StmtGenerator_generate(stmts[1], level), LAMBDA head, head_level :
         TryStmt(generate_stmts(Tail(stmts), head_level), LAMBDA rest, rest_level :
             SOk(head \o rest, rest_level)))

\* indent(); generate(body)?; dedent(); then the closing brace.
generate_braced_body(header_line, body, level) ==
    TryStmt(StmtGenerator_generate(body, indent(level)), LAMBDA body_code, body_level :
        SOk(<<header_line>> \o body_code \o << get_indent(dedent(body_level)) \o "}" >>,
            dedent(body_level)))

\* the else part of generate_if, entered at the level the then part left
generate_else(else_branch, level) ==
    IF IsSome(else_branch)
    THEN TryStmt(StmtGenerator_generate(Unwrap(else_branch), indent(level)),
                 LAMBDA else_code, else_level :
                     SOk(<< get_indent(level) \o "} else {" >> \o else_code,
                         dedent(else_level)))
    ELSE SOk(<<>>, level)

generate_if(condition, then_branch, else_branch, level) ==
    TryAt(ExprGenerator_generate(condition), level, LAMBDA cond_code :
    TryStmt(StmtGenerator_generate(then_branch, indent(level)),
            LAMBDA then_code, then_level :
    TryStmt(generate_else(else_branch, dedent(then_level)),
            LAMBDA else_code, else_level :
        SOk(<< get_indent(level) \o "if (" \o cond_code \o ") {" >>
                \o then_code \o else_code \o << get_indent(else_level) \o "}" >>,
            else_level))))

generate_while(condition, body, level) ==
    TryAt(ExprGenerator_generate(condition), level, LAMBDA cond_code :
        generate_braced_body(get_indent(level) \o "while (" \o cond_code \o ") {",
                             body, level))

generate_for(var, iterator, body, span, level) ==
    TryAt(generate_for_header(var, iterator, span), level, LAMBDA header :
        generate_braced_body(get_indent(level) \o header, body, level))

generate_block(statements, level) ==
    TryStmt(generate_stmts(statements, indent(level)), LAMBDA body_code, body_level :
        SOk(<< get_indent(level) \o "{" >> \o body_code
                \o << get_indent(dedent(body_level)) \o "}" >>,
            dedent(body_level)))

StmtGenerator_generate(stmt, level) ==
    CASE stmt.tag = "Kernel" ->
            SErr(statement_error("kernel statements should be handled by KernelGenerator",
                                 stmt.span), level)
      [] stmt.tag \in {"Fusion", "Schedule", "TypeDef"} -> SOk(<<>>, level)
      [] stmt.tag = "Function" ->
            generate_function(stmt.name, stmt.params, stmt.return_type, stmt.body,
                              stmt.span, level)
      [] stmt.tag = "Let" -> generate_let(stmt.name, stmt.ty, stmt.value, level)
      [] stmt.tag = "Var" -> generate_var(stmt.name, stmt.ty, stmt.value, level)
      [] stmt.tag = "Const" -> generate_const(stmt.name, stmt.ty, stmt.value, level)
      [] stmt.tag = "If" ->
            generate_if(stmt.condition, stmt.then_branch, stmt.else_branch, level)
      [] stmt.tag = "While" -> generate_while(stmt.condition, stmt.body, level)
      [] stmt.tag = "For" ->
            generate_for(stmt.var, stmt.iterator, stmt.body, stmt.span, level)
      [] stmt.tag = "Return" -> generate_return(stmt.value, level)
      [] stmt.tag = "Expr" -> generate_expr_stmt(stmt.expr, level)
      [] stmt.tag = "Block" -> generate_block(stmt.statements, level)
      [] stmt.tag = "SyncThreads" -> generate_sync_threads(level)
      [] stmt.tag = "LoadShared" -> generate_load_shared(stmt.dest, stmt.src, level)

----------------------------------------------------------------------------
(* AST: kernels and schedules (flare-ir/src/hir/kernel.rs,                 *)
(* flare/src/ast/schedule.rs)                                              *)

SharedMemoryDecl(name, shape, ty, span) ==
    [name |-> name, shape |-> shape, ty |-> ty, span |-> span]

KernelDef(name, generic_params, params, return_type, grid, block, shared_memory,
          compute, body, attributes, span) ==
    [name |-> name, generic_params |-> generic_params, params |-> params,
     return_type |-> return_type, grid |-> grid, block |-> block,
     shared_memory |-> shared_memory, compute |-> compute, body |-> body,
     attributes |-> attributes, span |-> span]

Tile(x, y, z) == [tag |-> "Tile", x |-> x, y |-> y, z |-> z]

Vectorize(n) == [tag |-> "Vectorize", n |-> n]

Unroll(n) == [tag |-> "Unroll", n |-> n]

Threads(x, y) == [tag |-> "Threads", x |-> x, y |-> y]

Memory(var, location) == [tag |-> "Memory", var |-> var, location |-> location]

Stream(name) == [tag |-> "Stream", name |-> name]

Pipeline(depth) == [tag |-> "Pipeline", depth |-> depth]

Parallel == [tag |-> "Parallel"]

MemoryLocation(tag) == [tag |-> tag, name |-> ""]

MemoryLocationNamed(name) == [tag |-> "Named", name |-> name]

ScheduleBlock(target, directives, span) ==
    [target |-> target, directives |-> directives, span |-> span]

\* {:?} of an Option<i64>
DebugOptionI64(o) == IF IsSome(o) THEN "Some(" \o I64ToString(Unwrap(o)) \o ")" ELSE "None"

\* {:?} of a MemoryLocation
DebugMemoryLocation(l) ==
    IF l.tag = "Named" THEN "Named(\"" \o l.name \o "\")" ELSE l.tag

----------------------------------------------------------------------------
(* KernelGenerator (flare-codegen-metal/src/kernel.rs) *)

KernelConfig(default_threadgroup_size, max_threads_per_threadgroup, emit_debug) ==
    [default_threadgroup_size |-> default_threadgroup_size,
     max_threads_per_threadgroup |-> max_threads_per_threadgroup,
     emit_debug |-> emit_debug]

KernelConfig_default == KernelConfig(<<U32(256), U32(1), U32(1)>>, U32(1024), FALSE)

\* validate_kernel with the limit one dimension lower
validate_kernel_below_3(kernel) ==
    IF IsSome(kernel.grid) /\ Len(Unwrap(kernel.grid)) >= 3
    THEN Err(invalid_kernel_config("metal supports maximum 3D grid dims", kernel.span))
    ELSE IF IsSome(kernel.block) /\ Len(Unwrap(kernel.block)) >= 3
    THEN Err(invalid_kernel_config("metal supports maximum 3D threadgroup dims",
                                   kernel.span))
    ELSE Ok(<<>>)

validate_kernel(kernel) ==
    IF IsSome(kernel.grid) /\ Len(Unwrap(kernel.grid)) > 3
    THEN Err(invalid_kernel_config("metal supports maximum 3D grid dims", kernel.span))
    ELSE IF IsSome(kernel.block) /\ Len(Unwrap(kernel.block)) > 3
    THEN Err(invalid_kernel_config("metal supports maximum 3D threadgroup dims",
                                   kernel.span))
    ELSE Ok(<<>>)

\* the text of one parameter from its converted type
parameter_text(type_str, name, buffer_index) ==
    IF StrContains(type_str, "*") /\ EndsWith(type_str, "*")
    THEN SubSeq(type_str, 1, Len(type_str) - 1) \o " " \o "*" \o name
             \o " [[buffer(" \o ToString(buffer_index) \o ")]]"
    ELSE type_str \o " " \o name \o " [[buffer(" \o ToString(buffer_index) \o ")]]"

\* generate_parameter numbering the buffers from 1
generate_parameter_from_1(param, buffer_index) ==
    Try(convert(param.ty, param.span), LAMBDA param_type :
        Ok(parameter_text(param_type.msl_type, param.name, buffer_index + 1)))

generate_parameter(param, buffer_index) ==
    Try(convert(param.ty, param.span), LAMBDA param_type :
        Ok(parameter_text(param_type.msl_type, param.name, buffer_index)))

BuiltinParams ==
    << "uint3 thread_position_in_threadgroup [[thread_position_in_threadgroup]]",
       "uint3 threadgroup_position_in_grid [[threadgroup_position_in_grid]]",
       "uint3 threads_per_threadgroup [[threads_per_threadgroup]]" >>

RECURSIVE generate_parameters(_, _)
\* `for param in &kernel.params { ...generate_parameter(param, param_index)?;
\* param_index += 1 }`
generate_parameters(params, param_index) ==
    IF Len(params) = 0 THEN Ok(<<>>)
    ELSE Try(generate_parameter(params[1], param_index), LAMBDA head :
         Try(generate_parameters(Tail(params), param_index + 1), LAMBDA rest :
             Ok(<<head>> \o rest)))

SignatureSeparatorPad == Repeat(" ", 23)

\* "kernel void <name>(" \o params_code.join(",\n<pad>") \o ")", as its lines
signature_lines(name, params_code) ==
    [i \in 1..Len(params_code) |->
        (IF i = 1 THEN "kernel void " \o name \o "(" ELSE SignatureSeparatorPad)
            \o params_code[i]
            \o (IF i = Len(params_code) THEN ")" ELSE ",")]

generate_signature(kernel) ==
    IF Len(kernel.generic_params) # 0
    THEN Err(unsupported_feature("generic kernel parameters", kernel.span))
    ELSE Try(generate_parameters(kernel.params, 0), LAMBDA user :
             Ok(signature_lines(kernel.name, user \o BuiltinParams)))

\* `match &decl.ty { Some(ty) => convert(ty, span)?.as_str(), None => return Err(..) }`
shared_memory_type(decl) ==
    IF IsSome(decl.ty)
    THEN Try(convert(Unwrap(decl.ty), decl.span), LAMBDA ty : Ok(ty.msl_type))
    ELSE Err(invalid_memory_config("shared memory requires explicit type in Metal",
                                   decl.span))

generate_shared_memory(decl) ==
    Try(shared_memory_type(decl), LAMBDA ty_str :
        IF Len(decl.shape) = 0
        THEN Err(invalid_memory_config("shared memory requires explicit shape", decl.span))
        ELSE Try(generate_each(decl.shape), LAMBDA size_exprs :
                 Ok("threadgroup " \o ty_str \o " " \o decl.name
                    \o "[" \o Join(size_exprs, " * ") \o "]")))

RECURSIVE generate_shared_decls(_)
\* `for decl in shared_mem { writeln!(output, "    {}", generate_shared_memory(decl)?) }`
generate_shared_decls(decls) ==
    IF Len(decls) = 0 THEN Ok(<<>>)
    ELSE Try(generate_shared_memory(decls[1]), LAMBDA head :
         Try(generate_shared_decls(Tail(decls)), LAMBDA rest :
             Ok(<<"    " \o head>> \o rest)))

\* The shared-memory part of generate: the declarations, then a blank line
\* when there is at least one.
generate_shared_section(kernel) ==
    IF IsSome(kernel.shared_memory)
    THEN Try(generate_shared_decls(Unwrap(kernel.shared_memory)), LAMBDA decls :
             IF Len(Unwrap(kernel.shared_memory)) # 0 THEN Ok(decls \o <<"">>)
             ELSE Ok(decls))
    ELSE Ok(<<>>)

hint_line(directive) ==
    CASE directive.tag = "Tile" ->
            "// tiling: (" \o I64ToString(directive.x) \o ", "
                \o DebugOptionI64(directive.y) \o ", " \o DebugOptionI64(directive.z) \o ")"
      [] directive.tag = "Vectorize" ->
            "// - vectorization factor: " \o I64ToString(directive.n)
      [] directive.tag = "Unroll" -> "// - unroll factor: " \o I64ToString(directive.n)
      [] directive.tag = "Threads" ->
            "// - thread config: (" \o I64ToString(directive.x) \o ", "
                \o DebugOptionI64(directive.y) \o ")"
      [] directive.tag = "Memory" ->
            "// - memory placement for '" \o directive.var \o "': "
                \o DebugMemoryLocation(directive.location)
      [] directive.tag = "Stream" -> "// stream: " \o directive.name
      [] directive.tag = "Pipeline" ->
            "/ pipeline depth: " \o DebugOptionI64(directive.depth)
      [] directive.tag = "Parallel" -> "// parallel execution enabled"

hints_header == <<"// scheduling:">>

apply_scheduling_hints(code, schedule) ==
    hints_header
        \o [i \in 1..Len(schedule.directives) |-> hint_line(schedule.directives[i])]
        \o code

\* `if let Some(compute_stmts) = &kernel.compute { for stmt in compute_stmts {..} }`
generate_compute(compute, level) ==
    IF IsSome(compute) THEN generate_stmts(Unwrap(compute), level) ELSE SOk(<<>>, level)

\* generate_kernel_stmts with the body statements before the compute ones
generate_body_first(kernel) ==
    TryStmt(generate_stmts(kernel.body, set_indent(1)), LAMBDA body_code, body_level :
    TryStmt(generate_compute(kernel.compute, body_level),
            LAMBDA compute_code, compute_level :
        SOk(body_code \o compute_code, compute_level)))

\* The statements of generate: set_indent(1), the compute statements, then
\* the body statements.
generate_kernel_stmts(kernel) ==
    TryStmt(generate_compute(kernel.compute, set_indent(1)),
            LAMBDA compute_code, compute_level :
    TryStmt(generate_stmts(kernel.body, compute_level), LAMBDA body_code, body_level :
        SOk(compute_code \o body_code, body_level)))

\* `if let Some(sched) = schedule { output = self.apply_scheduling_hints(output, sched)? }`
with_schedule(output, schedule) ==
    IF IsSome(schedule) THEN apply_scheduling_hints(output, Unwrap(schedule)) ELSE output

\* generate with the signature emitted before the kernel is validated
generate_signature_first(kernel, schedule, level) ==
    TryAt(generate_signature(kernel), level, LAMBDA signature :
    TryAt(validate_kernel(kernel), level, LAMBDA valid :
    TryAt(generate_shared_section(kernel), level, LAMBDA shared :
    TryStmt(generate_kernel_stmts(kernel), LAMBDA stmts, stmts_level :
        SOk(with_schedule(signature \o <<"{">> \o shared \o stmts \o <<"}">>, schedule),
            stmts_level)))))

\* generate without its `self.stmt_gen.set_indent(1)`: the statements are
\* emitted at the level the generator was left at
generate_at_level_left(kernel, schedule, level) ==
    TryAt(validate_kernel(kernel), level, LAMBDA valid :
    TryAt(generate_signature(kernel), level, LAMBDA signature :
    TryAt(generate_shared_section(kernel), level, LAMBDA shared :
    TryStmt(generate_compute(kernel.compute, level), LAMBDA compute_code, compute_level :
    TryStmt(generate_stmts(kernel.body, compute_level), LAMBDA stmts, stmts_level :
        SOk(with_schedule(signature \o <<"{">> \o shared \o compute_code \o stmts
                              \o <<"}">>, schedule),
            stmts_level))))))

KernelGenerator_generate(kernel, schedule, level) ==
    TryAt(validate_kernel(kernel), level, LAMBDA valid :
    TryAt(generate_signature(kernel), level, LAMBDA signature :
    TryAt(generate_shared_section(kernel), level, LAMBDA shared :
    TryStmt(generate_kernel_stmts(kernel), LAMBDA stmts, stmts_level :
        SOk(with_schedule(signature \o <<"{">> \o shared \o stmts \o <<"}">>, schedule),
            stmts_level)))))

block_rank_size(rank, default_size) ==
    CASE rank = 1 -> <<U32(256), U32(1), U32(1)>>
      [] rank = 2 -> <<U32(16), U32(16), U32(1)>>
      [] rank = 3 -> <<U32(8), U32(8), U32(8)>>
      [] OTHER -> default_size

first_threads(directives) ==
    IF \E i \in 1..Len(directives) : directives[i].tag = "Threads"
    THEN CHOOSE i \in 1..Len(directives) :
             /\ directives[i].tag = "Threads"
             /\ \A j \in 1..(i - 1) : directives[j].tag # "Threads"
    ELSE 0

threads_size(directive) ==
    << AsU32(directive.x),
       AsU32(IF IsSome(directive.y) THEN Unwrap(directive.y) ELSE I64(1)),
       U32(1) >>

get_threadgroup_size(cfg, kernel, schedule) ==
    IF IsSome(schedule) /\ first_threads(Unwrap(schedule).directives) # 0
    THEN threads_size(Unwrap(schedule).directives[first_threads(Unwrap(schedule).directives)])
    ELSE IF IsSome(kernel.block)
    THEN block_rank_size(Len(Unwrap(kernel.block)), cfg.default_threadgroup_size)
    ELSE cfg.default_threadgroup_size

----------------------------------------------------------------------------
----------------------------------------------------------------------------
(* Tokens (flare/src/lexer/token.rs).  A source text is modelled by the    *)
(* sequence of its lexemes, written one space apart; Tokenize gives each   *)
(* its TokenKind, its payload and its byte span, as Parser::new collects   *)
(* them (newlines dropped).                                                *)

FixedTokens ==
    [ kernel |-> "Kernel", fn |-> "Fn", let |-> "Let", var |-> "Var",
      const |-> "Const", return |-> "Return", if |-> "If", else |-> "Else",
      for |-> "For", while |-> "While", in |-> "In", where |-> "Where",
      type |-> "Type", trait |-> "Trait", impl |-> "Impl", grid |-> "Grid",
      block |-> "Block", shared_memory |-> "SharedMemory", compute |-> "Compute",
      thread_idx |-> "ThreadIdx", block_idx |-> "BlockIdx", block_dim |-> "BlockDim",
      sync_threads |-> "SyncThreads", load_shared |-> "LoadShared",
      schedule |-> "Schedule", stream |-> "Stream", pipeline |-> "Pipeline",
      parallel |-> "Parallel", sync |-> "Sync", stage |-> "Stage", auto |-> "Auto",
      manual |-> "Manual", hints |-> "Hints", dynamic |-> "Dynamic",
      memory |-> "Memory", persistent |-> "Persistent", temporary |-> "Temporary",
      streaming |-> "Streaming", checkpoint |-> "Checkpoint",
      recompute |-> "Recompute", device |-> "Device", replicate |-> "Replicate",
      p2p_transfer |-> "P2PTransfer", all_reduce |-> "AllReduce",
      backend |-> "Backend", cuda |-> "Cuda", metal |-> "Metal", rocm |-> "Rocm",
      fuse |-> "Fuse", inline |-> "Inline", into |-> "Into",
      strategy |-> "Strategy", profile |-> "Profile", streams |-> "Streams",
      depth |-> "Depth", from |-> "From", to |-> "To", devices |-> "Devices",
      budget |-> "Budget", Tensor |-> "Tensor", Matrix |-> "Matrix",
      Vector |-> "Vector", i32 |-> "I32", i64 |-> "I64", u32 |-> "U32",
      u64 |-> "U64", f32 |-> "F32", f64 |-> "F64", bool |-> "Bool",
      true |-> "True", false |-> "False", max |-> "Max", min |-> "Min",
      product |-> "Product" ]
    @@ ("@fusion_point" :> "FusionPoint") @@ ("@fusable" :> "Fusable")
    @@ ("@fusion_transform" :> "FusionTransform") @@ ("@fused_kernel" :> "FusedKernel")
    @@ ("@optimize" :> "Optimize") @@ ("@auto_tune" :> "AutoTune")
    @@ ("@schedule" :> "ScheduleAnnotation") @@ ("@memory" :> "MemoryAnnotation")
    @@ ("@depends_on" :> "DependsOn") @@ ("@independent" :> "Independent")
    @@ ("@prefer_parallel" :> "PreferParallel") @@ ("@must_wait" :> "MustWait")
    @@ ("@dynamic_dispatch" :> "DynamicDispatch")
    @@ ("@pipeline_depth" :> "PipelineDepth")
    @@ ("@p2p_transfer" :> "P2PTransferAnnotation")
    @@ ("@all_reduce" :> "AllReduceAnnotation") @@ ("@" :> "At")
    @@ ("+" :> "Plus") @@ ("-" :> "Minus") @@ ("*" :> "Star") @@ ("/" :> "Slash")
    @@ ("%" :> "Percent") @@ ("==" :> "Equal") @@ ("!=" :> "NotEqual")
    @@ ("<" :> "Less") @@ (">" :> "Greater") @@ ("<=" :> "LessEqual")
    @@ (">=" :> "GreaterEqual") @@ ("&&" :> "And") @@ ("||" :> "Or")
    @@ ("!" :> "Not") @@ ("=" :> "Assign") @@ ("+=" :> "PlusAssign")
    @@ ("-=" :> "MinusAssign") @@ ("*=" :> "StarAssign") @@ ("/=" :> "SlashAssign")
    @@ ("->" :> "Arrow") @@ ("=>" :> "FatArrow") @@ ("|>" :> "Pipe")
    @@ ("." :> "Dot") @@ (".." :> "DotDot") @@ (":" :> "Colon")
    @@ ("::" :> "DoubleColon") @@ ("?" :> "Question") @@ ("..." :> "Ellipsis")
    @@ ("(" :> "LeftParen") @@ (")" :> "RightParen") @@ ("{" :> "LeftBrace")
    @@ ("}" :> "RightBrace") @@ ("[" :> "LeftBracket") @@ ("]" :> "RightBracket")
    @@ ("," :> "Comma") @@ (";" :> "Semicolon") @@ ("\n" :> "Newline")

RECURSIVE AllDigits(_)
AllDigits(s) ==
    Len(s) = 0 \/ (DigitValue(SubSeq(s, 1, 1)) >= 0 /\ AllDigits(SubSeq(s, 2, Len(s))))

RECURSIVE DotIndex(_, _)
\* the index of the first "." of s from i on, 0 when there is none
DotIndex(s, i) ==
    IF i > Len(s) THEN 0
    ELSE IF SubSeq(s, i, i) = "." THEN i ELSE DotIndex(s, i + 1)

RECURSIVE LimbsMul10Add(_, _, _)
LimbsMul10Add(v, i, carry) ==
    IF i > Len(v) THEN <<>>
    ELSE <<(v[i] * 10 + carry) % LimbBase>>
             \o LimbsMul10Add(v, i + 1, (v[i] * 10 + carry) \div LimbBase)

RECURSIVE ParseI64Limbs(_, _)
\* the digits of s read into four limbs, modulo 2^64
ParseI64Limbs(s, acc) ==
    IF Len(s) = 0 THEN acc
    ELSE ParseI64Limbs(SubSeq(s, 2, Len(s)),
                       LimbsMul10Add(acc, 1, DigitValue(SubSeq(s, 1, 1))))

RECURSIVE StripTrailingZeros(_)
StripTrailingZeros(s) ==
    IF EndsWith(s, "0") THEN StripTrailingZeros(SubSeq(s, 1, Len(s) - 1)) ELSE s

IsIntLexeme(s) == Len(s) > 0 /\ AllDigits(s)

FloatLexemeAt(s, d) ==
    /\ d > 1 /\ d < Len(s)
    /\ AllDigits(SubSeq(s, 1, d - 1))
    /\ AllDigits(SubSeq(s, d + 1, Len(s)))

IsFloatLexeme(s) == FloatLexemeAt(s, DotIndex(s, 1))

IsStringLexeme(s) == Len(s) >= 2 /\ StartsWith(s, "\"") /\ EndsWith(s, "\"")

Token(kind, text, span, val) == [kind |-> kind, text |-> text, span |-> span, val |-> val]

FloatValue(lexeme, d) ==
    F64(ParseDigits(SubSeq(lexeme, 1, d - 1), 0),
        StripTrailingZeros(SubSeq(lexeme, d + 1, Len(lexeme))))

IdentStart ==
    {"a", "b", "c", "d", "e", "f", "g", "h", "i", "j", "k", "l", "m",
     "n", "o", "p", "q", "r", "s", "t", "u", "v", "w", "x", "y", "z",
     "A", "B", "C", "D", "E", "F", "G", "H", "I", "J", "K", "L", "M",
     "N", "O", "P", "Q", "R", "S", "T", "U", "V", "W", "X", "Y", "Z", "_"}

RECURSIVE AllIdentChars(_)
AllIdentChars(s) ==
    \/ Len(s) = 0
    \/ /\ (SubSeq(s, 1, 1) \in IdentStart \/ DigitValue(SubSeq(s, 1, 1)) >= 0)
       /\ AllIdentChars(SubSeq(s, 2, Len(s)))

\* [a-zA-Z_][a-zA-Z0-9_]*
IsIdentLexeme(s) ==
    Len(s) > 0 /\ SubSeq(s, 1, 1) \in IdentStart /\ AllIdentChars(SubSeq(s, 2, Len(s)))

RECURSIVE StripLeadingZeros(_)
StripLeadingZeros(s) ==
    IF Len(s) > 1 /\ StartsWith(s, "0") THEN StripLeadingZeros(SubSeq(s, 2, Len(s))) ELSE s

RECURSIVE DigitsAtMost(_, _)
\* of two digit strings of one length, a names a number no greater than b
DigitsAtMost(a, b) ==
    \/ Len(a) = 0
    \/ DigitValue(SubSeq(a, 1, 1)) < DigitValue(SubSeq(b, 1, 1))
    \/ /\ SubSeq(a, 1, 1) = SubSeq(b, 1, 1)
       /\ DigitsAtMost(SubSeq(a, 2, Len(a)), SubSeq(b, 2, Len(b)))

I64MaxDigits == "9223372036854775807"

FitsI64Digits(d) ==
    Len(d) < Len(I64MaxDigits) \/ (Len(d) = Len(I64MaxDigits) /\ DigitsAtMost(d, I64MaxDigits))

\* str::parse::<i64> of a digit string succeeds
FitsI64(s) == FitsI64Digits(StripLeadingZeros(s))

\* The outcome of the logos lexer on one lexeme: its TokenKind and payload,
\* or "Error" when `[0-9]+`'s callback returns None (the literal is above
\* i64::MAX) and when no token rule matches the lexeme.
lex_kind(lexeme) ==
    IF lexeme \in DOMAIN FixedTokens THEN [kind |-> FixedTokens[lexeme], val |-> <<>>]
    ELSE IF IsIntLexeme(lexeme)
    THEN IF FitsI64(lexeme)
         THEN [kind |-> "IntLiteral", val |-> ParseI64Limbs(lexeme, <<0, 0, 0, 0>>)]
         ELSE [kind |-> "Error", val |-> <<>>]
    ELSE IF IsFloatLexeme(lexeme)
    THEN [kind |-> "FloatLiteral", val |-> FloatValue(lexeme, DotIndex(lexeme, 1))]
    ELSE IF IsStringLexeme(lexeme)
    THEN [kind |-> "StringLiteral", val |-> SubSeq(lexeme, 2, Len(lexeme) - 1)]
    ELSE IF IsIdentLexeme(lexeme)
    THEN [kind |-> "Identifier", val |-> lexeme]
    ELSE [kind |-> "Error", val |-> <<>>]

TokenAt(k, lexeme, offset) ==
    Token(k.kind, lexeme, <<offset, offset + Len(lexeme)>>, k.val)

\* the token rules that start with "@": the sixteen annotation markers and At
AtMarkers == {m \in DOMAIN FixedTokens : StartsWith(m, "@")}

\* logos takes the longest rule matching at the cursor: of a text starting
\* with "@", the longest marker it starts with
LongestMarker(text) ==
    CHOOSE m \in AtMarkers :
        /\ StartsWith(text, m)
        /\ \A o \in AtMarkers : StartsWith(text, o) => Len(o) <= Len(m)

\* a text starting with "@" that is no single token continues with a second
\* token right after its marker, no space between
IsGlued(lexeme) ==
    StartsWith(lexeme, "@") /\ Len(lexeme) > Len(LongestMarker(lexeme))

RECURSIVE Tokenize(_, _)
\* every item the logos lexer yields on the lexemes, one space apart
Tokenize(lexemes, offset) ==
    IF Len(lexemes) = 0 THEN <<>>
    ELSE IF IsGlued(lexemes[1])
    THEN <<TokenAt(lex_kind(LongestMarker(lexemes[1])), LongestMarker(lexemes[1]), offset)>>
             \o Tokenize(<<SubSeq(lexemes[1], Len(LongestMarker(lexemes[1])) + 1,
                                   Len(lexemes[1]))>> \o Tail(lexemes),
                         offset + Len(LongestMarker(lexemes[1])))
    ELSE <<TokenAt(lex_kind(lexemes[1]), lexemes[1], offset)>>
             \o Tokenize(Tail(lexemes), offset + Len(lexemes[1]) + 1)

\* `.unwrap()` of a logos Err item in Lexer::peek: the thread panics
LexPanic ==
    [kind |-> "panic", message |-> "called Result::unwrap() on an Err value",
     span |-> <<0, 0>>]

\* Lexer::new(input): `inner` is the logos lexer at the start of the input;
\* `yielded` is the number of items `inner` has yielded
Lexer_new(input) == [input |-> input, yielded |-> 0]

\* `self.inner.next()`: the next item of the input and the lexer after it;
\* past the last item logos yields None and stays where it is
Lexer_inner_next_stuck(lx) ==
    IF lx.yielded < Len(Tokenize(lx.input, 0))
    THEN [item |-> Some(Tokenize(lx.input, 0)[lx.yielded + 1]), lexer |-> lx]
    ELSE [item |-> None, lexer |-> lx]

Lexer_inner_next(lx) ==
    IF lx.yielded < Len(Tokenize(lx.input, 0))
    THEN [item |-> Some(Tokenize(lx.input, 0)[lx.yielded + 1]),
          lexer |-> [lx EXCEPT !.yielded = @ + 1]]
    ELSE [item |-> None, lexer |-> lx]

\* Lexer::peek: None at the end of the input (`.ok()?`), a panic on an item
\* that is an Err (`.unwrap()`), else Some(Ok(Token::new(kind, .., slice,
\* span))); `value` is what the call returns, `lexer` the lexer it leaves
Lexer_peek(lx) ==
    IF Lexer_inner_next(lx).item = None
    THEN [ok |-> TRUE, val |-> None, err |-> NoErr, lexer |-> Lexer_inner_next(lx).lexer]
    ELSE IF Unwrap(Lexer_inner_next(lx).item).kind = "Error"
    THEN [ok |-> FALSE, val |-> <<>>, err |-> LexPanic, lexer |-> Lexer_inner_next(lx).lexer]
    ELSE [ok |-> TRUE, val |-> Some(Unwrap(Lexer_inner_next(lx).item)), err |-> NoErr,
          lexer |-> Lexer_inner_next(lx).lexer]

\* Lexer::peek never yields Some(Err(_)): it yields Some(Ok(token)), yields
\* None at the end of the input, or panics on the first item that is an Err.
Lexer_panics(items) == \E i \in 1..Len(items) : items[i].kind = "Error"

IsKept(token) == token.kind # "Newline"

\* Parser::new: the tokens of the source without the Newline tokens.
Parser_new(lexemes) ==
    IF Lexer_panics(Tokenize(lexemes, 0))
    THEN [ok |-> FALSE, val |-> <<>>, err |-> LexPanic]
    ELSE [ok |-> TRUE, val |-> SelectSeq(Tokenize(lexemes, 0), IsKept), err |-> <<>>]

----------------------------------------------------------------------------
(* Parser: the cursor (flare/src/parser/core.rs).  `toks` is Parser.tokens *)
(* and `p` is Parser.current, the number of tokens consumed; every parsing *)
(* operation returns its Result and the cursor it leaves.                  *)

POk(v, p) == [ok |-> TRUE, val |-> v, err |-> NoErr, pos |-> p]

PErr(e, p) == [ok |-> FALSE, val |-> <<>>, err |-> e, pos |-> p]

\* `self.parse_x()?`: the continuation on the value and the cursor left.
TryParse(r, K(_, _)) == IF r.ok THEN K(r.val, r.pos) ELSE r

UnexpectedEof == [kind |-> "UnexpectedEof", message |-> "", span |-> <<0, 0>>]

UnexpectedToken(detail) ==
    [kind |-> "UnexpectedToken", message |-> detail, span |-> <<0, 0>>]

\* an index past the end of Parser.tokens: the thread panics
IndexPanic == [kind |-> "panic", message |-> "index out of bounds", span |-> <<0, 0>>]

peek_is_some(toks, p) == p < Len(toks)

peek(toks, p) == toks[p + 1]

\* advance without its check of the end: the cursor moves past the tokens
advance_unchecked(toks, p) ==
    IF p >= Len(toks) THEN POk(Token("Eof", "", <<0, 0>>, <<>>), p + 1)
    ELSE POk(toks[p + 1], p + 1)

advance(toks, p) ==
    IF p >= Len(toks) THEN PErr(UnexpectedEof, p) ELSE POk(toks[p + 1], p + 1)

expect(toks, p, expected) ==
    TryParse(advance(toks, p), LAMBDA token, q :
        IF token.kind = expected THEN POk(token, q)
        ELSE PErr(UnexpectedToken("expected " \o expected \o ", found " \o token.kind), q))

check(toks, p, kind) == peek_is_some(toks, p) /\ peek(toks, p).kind = kind

\* match_token: the cursor after it (moved iff the kind matched)
match_token(toks, p, kind) == IF check(toks, p, kind) THEN p + 1 ELSE p

\* span_from taking the cursor for the end of the last token
span_from_cursor(toks, p, start) == <<start, p>>

span_from(toks, p, start) == <<start, IF p > 0 THEN toks[p].span[2] ELSE 0>>

RECURSIVE expect_all(_, _, _)
\* expect(k1)?; expect(k2)?; ... : the last token expected, or the first error
expect_all(toks, p, kinds) ==
    TryParse(expect(toks, p, kinds[1]), LAMBDA first, q :
        IF Len(kinds) = 1 THEN POk(first, q) ELSE expect_all(toks, q, Tail(kinds)))

\* `expect(kind)?` after an operation that gave `v`: still `v`, past the token
closed_by(toks, p, kind, v) ==
    TryParse(expect(toks, p, kind), LAMBDA token, q : POk(v, q))

\* Some(..) of what an operation gave
some_of(r) == TryParse(r, LAMBDA v, q : POk(Some(v), q))

ScalarTypeTokens ==
    [I32 |-> TyI32, I64 |-> TyI64, U32 |-> TyU32, U64 |-> TyU64, F32 |-> TyF32,
     F64 |-> TyF64, Bool |-> TyBool]

RECURSIVE parse_type(_, _)
RECURSIVE tensor_shape_loop(_, _, _)

\* the loop of parse_type's Tensor case over the dimensions
tensor_shape_loop(toks, p, shape) ==
    TryParse(advance(toks, p), LAMBDA tok, q :
        IF tok.kind \notin {"Identifier", "IntLiteral"}
        THEN PErr(UnexpectedToken("expected dimension in tensor type, found "
                                  \o tok.kind), q)
        ELSE IF check(toks, q, "Comma")
        THEN tensor_shape_loop(toks, q + 1, Append(shape, tok.text))
        ELSE POk(Append(shape, tok.text), q))

\* `[dims]>` after the comma of a tensor type
tensor_shape(toks, p) ==
    TryParse(expect(toks, p, "LeftBracket"), LAMBDA open, q :
    TryParse(IF check(toks, q, "RightBracket") THEN POk(<<>>, q)
             ELSE tensor_shape_loop(toks, q, <<>>), LAMBDA shape, q2 :
        closed_by(toks, q2, "RightBracket", shape)))

parse_tensor_type(toks, p) ==
    TryParse(expect(toks, p, "Less"), LAMBDA less, q :
    TryParse(parse_type(toks, q), LAMBDA dtype, q2 :
    TryParse(IF check(toks, q2, "Comma") THEN tensor_shape(toks, q2 + 1)
             ELSE POk(<<>>, q2), LAMBDA shape, q3 :
        closed_by(toks, q3, "Greater", TyTensor(dtype, shape)))))

\* `if match(Comma) { advance()? ... }`: an optional dimension lexeme
optional_dimension(toks, p) ==
    IF check(toks, p, "Comma")
    THEN TryParse(advance(toks, p + 1), LAMBDA tok, q : POk(Some(tok.text), q))
    ELSE POk(None, p)

\* the columns of a matrix type are read only after its rows
optional_cols(toks, p, rows) ==
    IF IsSome(rows) THEN optional_dimension(toks, p) ELSE POk(None, p)

parse_matrix_type(toks, p) ==
    TryParse(expect(toks, p, "Less"), LAMBDA less, q :
    TryParse(parse_type(toks, q), LAMBDA dtype, q2 :
    TryParse(optional_dimension(toks, q2), LAMBDA rows, q3 :
    TryParse(optional_cols(toks, q3, rows), LAMBDA cols, q4 :
        closed_by(toks, q4, "Greater", TyMatrix(dtype, rows, cols))))))

parse_vector_type(toks, p) ==
    TryParse(expect(toks, p, "Less"), LAMBDA less, q :
    TryParse(parse_type(toks, q), LAMBDA dtype, q2 :
    TryParse(optional_dimension(toks, q2), LAMBDA len, q3 :
        closed_by(toks, q3, "Greater", TyVector(dtype, len)))))

\* the `[size?]` suffix of parse_type; the size is `n as usize`
parse_array_suffix(toks, p, base_type) ==
    IF check(toks, p, "LeftBracket")
    THEN IF check(toks, p + 1, "IntLiteral")
         THEN closed_by(toks, p + 2, "RightBracket",
                        TyArray(base_type, Some(peek(toks, p + 1).val)))
         ELSE closed_by(toks, p + 1, "RightBracket", TyArray(base_type, None))
    ELSE POk(base_type, p)

\* the match of parse_type on the token it advanced over
parse_base_type(toks, token, q) ==
    IF token.kind \in DOMAIN ScalarTypeTokens THEN POk(ScalarTypeTokens[token.kind], q)
    ELSE IF token.kind = "Identifier" THEN POk(TyNamed(token.text), q)
    ELSE IF token.kind = "Tensor" THEN parse_tensor_type(toks, q)
    ELSE IF token.kind = "Matrix" THEN parse_matrix_type(toks, q)
    ELSE IF token.kind = "Vector" THEN parse_vector_type(toks, q)
    ELSE IF token.kind = "Star"
    THEN TryParse(parse_type(toks, q), LAMBDA inner, q2 : POk(TyPtr(inner), q2))
    ELSE PErr(UnexpectedToken("expected type, found " \o token.kind), q)

parse_type(toks, p) ==
    TryParse(advance(toks, p), LAMBDA token, q :
    TryParse(parse_base_type(toks, token, q), LAMBDA base_type, q2 :
        parse_array_suffix(toks, q2, base_type)))

----------------------------------------------------------------------------
(* Parser: expressions (flare/src/parser/expr.rs) *)

RECURSIVE Parser_call(_, _, _)
RECURSIVE parse_assignment(_, _)
RECURSIVE binary_loop(_, _, _, _)
RECURSIVE parse_unary(_, _)
RECURSIVE postfix_loop(_, _, _)
RECURSIVE parse_primary(_, _)
RECURSIVE expr_list_loop(_, _, _)
RECURSIVE block_statements_loop(_, _, _)

\* `self.parse_expression()` and `self.parse_statement()`, the two methods
\* every production re-enters, are calls on the parser (Parser_call below)
parse_expression(toks, p) == Parser_call("parse_expression", toks, p)

parse_statement(toks, p) == Parser_call("parse_statement", toks, p)

\* `loop { push(parse_expression()?); if !match_token(Comma) { break } }`
expr_list_loop(toks, p, acc) ==
    TryParse(parse_expression(toks, p), LAMBDA item, q :
        IF check(toks, q, "Comma") THEN expr_list_loop(toks, q + 1, Append(acc, item))
        ELSE POk(Append(acc, item), q))

\* a comma-separated list of expressions up to and including its closing token
parse_expr_list(toks, p, close) ==
    TryParse(IF check(toks, p, close) THEN POk(<<>>, p)
             ELSE expr_list_loop(toks, p, <<>>), LAMBDA items, q :
        closed_by(toks, q, close, items))

\* `while !check(RightBrace) && peek().is_some() { push(parse_statement()?) }`
block_statements_loop(toks, p, acc) ==
    IF ~check(toks, p, "RightBrace") /\ peek_is_some(toks, p)
    THEN TryParse(parse_statement(toks, p), LAMBDA stmt, q :
             block_statements_loop(toks, q, Append(acc, stmt)))
    ELSE POk(acc, p)

\* the statements of a block and its `}`; `start` is where the `{` began
parse_block_rest(toks, p, start) ==
    TryParse(block_statements_loop(toks, p, <<>>), LAMBDA statements, q :
    TryParse(expect(toks, q, "RightBrace"), LAMBDA close, q2 :
        POk(BlockExpr(statements, span_from(toks, q2, start)), q2)))

parse_block_expr(toks, p) ==
    TryParse(expect(toks, p, "LeftBrace"), LAMBDA open, q :
        parse_block_rest(toks, q, open.span[1]))

\* the optional `.dim` of thread_idx, block_idx and block_dim
parse_builtin_dim(toks, p) ==
    IF check(toks, p, "Dot")
    THEN TryParse(advance(toks, p + 1), LAMBDA tok, q : POk(Some(tok.text), q))
    ELSE POk(None, p)

\* a dimension of a tensor initialization as an expression
tensor_init_dim(tok) ==
    IF tok.kind = "Identifier" THEN Ident(tok.text, tok.span)
    ELSE IntLiteral(tok.val, tok.span)

RECURSIVE tensor_init_shape_loop(_, _, _)
tensor_init_shape_loop(toks, p, shape) ==
    TryParse(advance(toks, p), LAMBDA tok, q :
        IF tok.kind \notin {"Identifier", "IntLiteral"}
        THEN PErr(UnexpectedToken("Expected dimension in tensor initialization, found "
                                  \o tok.kind), q)
        ELSE IF check(toks, q, "Comma")
        THEN tensor_init_shape_loop(toks, q + 1, Append(shape, tensor_init_dim(tok)))
        ELSE POk(Append(shape, tensor_init_dim(tok)), q))

parse_tensor_init(toks, p, start) ==
    TryParse(expect(toks, p, "Less"), LAMBDA less, q :
    TryParse(parse_type(toks, q), LAMBDA dtype, q2 :
    TryParse(IF check(toks, q2, "Comma") THEN tensor_init_shape_loop(toks, q2 + 1, <<>>)
             ELSE POk(<<>>, q2), LAMBDA shape, q3 :
    TryParse(expect(toks, q3, "Greater"), LAMBDA close, q4 :
        POk(TensorInit(dtype, shape, span_from(toks, q4, start)), q4)))))

\* `else if ...` parses an expression, `else {` a block expression
parse_else_expr(toks, p) ==
    IF check(toks, p, "Else")
    THEN IF check(toks, p + 1, "If") THEN some_of(parse_expression(toks, p + 1))
         ELSE some_of(parse_block_expr(toks, p + 1))
    ELSE POk(None, p)

parse_if_expr(toks, p, start) ==
    TryParse(parse_expression(toks, p), LAMBDA condition, q :
    TryParse(parse_block_expr(toks, q), LAMBDA then_branch, q2 :
    TryParse(parse_else_expr(toks, q2), LAMBDA else_branch, q3 :
        POk(IfExpr(condition, then_branch, else_branch, span_from(toks, q3, start)),
            q3))))

\* the match of parse_primary on the token it advanced over
parse_primary_of(toks, token, q) ==
    CASE token.kind = "IntLiteral" -> POk(IntLiteral(token.val, token.span), q)
      [] token.kind = "FloatLiteral" -> POk(FloatLiteral(token.val, token.span), q)
      [] token.kind = "StringLiteral" -> POk(StringLiteral(token.val, token.span), q)
      [] token.kind = "True" -> POk(BoolLiteral(TRUE, token.span), q)
      [] token.kind = "False" -> POk(BoolLiteral(FALSE, token.span), q)
      [] token.kind = "Identifier" -> POk(Ident(token.text, token.span), q)
      [] token.kind = "LeftParen" ->
            TryParse(parse_expression(toks, q), LAMBDA expr, q2 :
                closed_by(toks, q2, "RightParen", expr))
      [] token.kind = "LeftBracket" ->
            TryParse(parse_expr_list(toks, q, "RightBracket"), LAMBDA elements, q2 :
                POk(ArrayExpr(elements, span_from(toks, q2, token.span[1])), q2))
      [] token.kind = "If" -> parse_if_expr(toks, q, token.span[1])
      [] token.kind = "LeftBrace" -> parse_block_rest(toks, q, token.span[1])
      [] token.kind \in {"ThreadIdx", "BlockIdx", "BlockDim"} ->
            TryParse(parse_builtin_dim(toks, q), LAMBDA dim, q2 :
                POk([tag |-> token.kind, dim |-> dim,
                     span |-> span_from(toks, q2, token.span[1])], q2))
      [] token.kind = "Tensor" -> parse_tensor_init(toks, q, token.span[1])
      [] OTHER ->
            PErr(UnexpectedToken("unexpected token in expression: " \o token.kind), q)

parse_primary(toks, p) ==
    TryParse(advance(toks, p), LAMBDA token, q : parse_primary_of(toks, token, q))

postfix_loop(toks, expr, p) ==
    IF check(toks, p, "LeftParen")
    THEN TryParse(parse_expr_list(toks, p + 1, "RightParen"), LAMBDA args, q :
             postfix_loop(toks, Call(expr, args, span_from(toks, q, expr.span[1])), q))
    ELSE IF check(toks, p, "LeftBracket")
    THEN TryParse(parse_expr_list(toks, p + 1, "RightBracket"), LAMBDA indices, q :
             postfix_loop(toks, Index(expr, indices, span_from(toks, q, expr.span[1])),
                          q))
    ELSE IF check(toks, p, "Dot")
    THEN TryParse(expect(toks, p + 1, "Identifier"), LAMBDA field, q :
             postfix_loop(toks, Member(expr, field.text,
                                       span_from(toks, q, expr.span[1])), q))
    ELSE POk(expr, p)

parse_postfix(toks, p) ==
    TryParse(parse_primary(toks, p), LAMBDA expr, q : postfix_loop(toks, expr, q))

parse_unary(toks, p) ==
    IF check(toks, p, "Minus") \/ check(toks, p, "Not")
    THEN TryParse(parse_unary(toks, p + 1), LAMBDA expr, q :
             POk(Unary(IF check(toks, p, "Minus") THEN "Neg" ELSE "Not", expr,
                       span_from(toks, q, peek(toks, p).span[1])), q))
    ELSE parse_postfix(toks, p)

\* the operators of each left-associative level, by token kind
LevelOps ==
    [logical_or  |-> [Or |-> "Or"],
     logical_and |-> [And |-> "And"],
     equality    |-> [Equal |-> "Equal", NotEqual |-> "NotEqual"],
     comparison  |-> [Less |-> "Less", Greater |-> "Greater",
                      LessEqual |-> "LessEqual", GreaterEqual |-> "GreaterEqual"],
     term        |-> [Plus |-> "Add", Minus |-> "Sub"],
     factor      |-> [Star |-> "Mul", Slash |-> "Div", Percent |-> "Mod"]]

RECURSIVE parse_level(_, _, _)

parse_factor(toks, p) == parse_level(toks, p, "factor")

parse_term(toks, p) == parse_level(toks, p, "term")

\* the end of a range: none before `;`, `]` or `)`
parse_range_end(toks, p) ==
    IF \/ check(toks, p, "Semicolon")
       \/ check(toks, p, "RightBracket")
       \/ check(toks, p, "RightParen")
    THEN POk(None, p)
    ELSE some_of(parse_term(toks, p))

parse_range(toks, p) ==
    TryParse(parse_term(toks, p), LAMBDA start_expr, q :
        IF check(toks, q, "DotDot")
        THEN TryParse(parse_range_end(toks, q + 1), LAMBDA end, q2 :
                 POk(RangeExpr(Some(start_expr), end,
                               span_from(toks, q2, start_expr.span[1])), q2))
        ELSE POk(start_expr, q))

parse_comparison(toks, p) == parse_level(toks, p, "comparison")

parse_equality(toks, p) == parse_level(toks, p, "equality")

parse_logical_and(toks, p) == parse_level(toks, p, "logical_and")

parse_logical_or(toks, p) == parse_level(toks, p, "logical_or")

\* parse_operand with the comparison level reading additive operands
parse_operand_past_range(toks, p, level) ==
    CASE level = "logical_or" -> parse_logical_and(toks, p)
      [] level = "logical_and" -> parse_equality(toks, p)
      [] level = "equality" -> parse_comparison(toks, p)
      [] level = "comparison" -> parse_term(toks, p)
      [] level = "term" -> parse_factor(toks, p)
      [] level = "factor" -> parse_unary(toks, p)

\* the operand parser of each level: the next tighter level
parse_operand(toks, p, level) ==
    CASE level = "logical_or" -> parse_logical_and(toks, p)
      [] level = "logical_and" -> parse_equality(toks, p)
      [] level = "equality" -> parse_comparison(toks, p)
      [] level = "comparison" -> parse_range(toks, p)
      [] level = "term" -> parse_factor(toks, p)
      [] level = "factor" -> parse_unary(toks, p)

\* `while <an operator of the level> { advance; right = operand; left = Binary }`
binary_loop(toks, left, p, level) ==
    IF peek_is_some(toks, p) /\ peek(toks, p).kind \in DOMAIN LevelOps[level]
    THEN TryParse(parse_operand(toks, p + 1, level), LAMBDA right, q :
             binary_loop(toks,
                 Binary(left, LevelOps[level][peek(toks, p).kind], right,
                        span_from(toks, q, left.span[1])),
                 q, level))
    ELSE POk(left, p)

parse_level(toks, p, level) ==
    TryParse(parse_operand(toks, p, level), LAMBDA left, q :
        binary_loop(toks, left, q, level))

CompoundAssignOps ==
    [PlusAssign |-> "Add", MinusAssign |-> "Sub", StarAssign |-> "Mul",
     SlashAssign |-> "Div"]

parse_assignment(toks, p) ==
    TryParse(parse_logical_or(toks, p), LAMBDA expr, q :
        IF check(toks, q, "Assign")
        THEN TryParse(parse_assignment(toks, q + 1), LAMBDA value, q2 :
                 POk(Assign(expr, value, span_from(toks, q2, expr.span[1])), q2))
        ELSE IF peek_is_some(toks, q) /\ peek(toks, q).kind \in DOMAIN CompoundAssignOps
        THEN TryParse(parse_assignment(toks, q + 1), LAMBDA value, q2 :
                 POk(CompoundAssign(expr, CompoundAssignOps[peek(toks, q).kind], value,
                                    span_from(toks, q2, expr.span[1])), q2))
        ELSE POk(expr, q))

----------------------------------------------------------------------------
(* Parser: statements (flare/src/parser/stmt.rs) *)

\* `if match_token(Colon) { Some(parse_type()?) } else { None }`, and its kin
optional_type(toks, p, introducer) ==
    IF check(toks, p, introducer) THEN some_of(parse_type(toks, p + 1))
    ELSE POk(None, p)

\* `let span = self.span_from(start); Ok(<node with span>)` at cursor q
spanned(toks, q, start, Node(_)) == POk(Node(span_from(toks, q, start)), q)

\* the same after `self.match_token(&TokenKind::Semicolon)`
terminated(toks, q, start, Node(_)) ==
    spanned(toks, match_token(toks, q, "Semicolon"), start, Node)

\* let and const: keyword, name, optional type, `=`, value, optional `;`
parse_binding(toks, p, keyword) ==
    TryParse(expect_all(toks, p, <<keyword, "Identifier">>), LAMBDA name, q :
    TryParse(optional_type(toks, q, "Colon"), LAMBDA ty, q2 :
    TryParse(expect(toks, q2, "Assign"), LAMBDA eq, q3 :
    TryParse(parse_expression(toks, q3), LAMBDA value, q4 :
        terminated(toks, q4, peek(toks, p).span[1], LAMBDA span :
            [tag |-> keyword, name |-> name.text, ty |-> ty, value |-> value,
             span |-> span])))))

parse_let_statement(toks, p) == parse_binding(toks, p, "Let")

parse_const_statement(toks, p) == parse_binding(toks, p, "Const")

\* `if match_token(Assign) { Some(parse_expression()?) } else { None }`
optional_value(toks, p) ==
    IF check(toks, p, "Assign") THEN some_of(parse_expression(toks, p + 1))
    ELSE POk(None, p)

parse_var_statement(toks, p) ==
    TryParse(expect_all(toks, p, <<"Var", "Identifier">>), LAMBDA name, q :
    TryParse(optional_type(toks, q, "Colon"), LAMBDA ty, q2 :
    TryParse(optional_value(toks, q2), LAMBDA value, q3 :
        terminated(toks, q3, peek(toks, p).span[1], LAMBDA span :
            VarStmt(name.text, ty, value, span)))))

\* `if match_token(Else) { Some(parse_statement()?) } else { None }`
optional_else(toks, p) ==
    IF check(toks, p, "Else") THEN some_of(parse_statement(toks, p + 1))
    ELSE POk(None, p)

parse_if_statement(toks, p) ==
    TryParse(expect(toks, p, "If"), LAMBDA start, q :
    TryParse(parse_expression(toks, q), LAMBDA condition, q2 :
    TryParse(parse_statement(toks, q2), LAMBDA then_branch, q3 :
    TryParse(optional_else(toks, q3), LAMBDA else_branch, q4 :
        spanned(toks, q4, start.span[1], LAMBDA span :
            IfStmt(condition, then_branch, else_branch, span))))))

parse_while_statement(toks, p) ==
    TryParse(expect(toks, p, "While"), LAMBDA start, q :
    TryParse(parse_expression(toks, q), LAMBDA condition, q2 :
    TryParse(parse_statement(toks, q2), LAMBDA body, q3 :
        spanned(toks, q3, start.span[1], LAMBDA span :
            WhileStmt(condition, body, span)))))

parse_for_statement(toks, p) ==
    TryParse(expect_all(toks, p, <<"For", "Identifier", "In">>), LAMBDA in, q :
    TryParse(parse_expression(toks, q), LAMBDA iterator, q2 :
    TryParse(parse_statement(toks, q2), LAMBDA body, q3 :
        spanned(toks, q3, peek(toks, p).span[1], LAMBDA span :
            ForStmt(peek(toks, p + 1).text, iterator, body, span)))))

\* `if check(Semicolon) { None } else { Some(parse_expression()?) }`
return_value(toks, p) ==
    IF check(toks, p, "Semicolon") THEN POk(None, p)
    ELSE some_of(parse_expression(toks, p))

parse_return_statement(toks, p) ==
    TryParse(expect(toks, p, "Return"), LAMBDA start, q :
    TryParse(return_value(toks, q), LAMBDA value, q2 :
        terminated(toks, q2, start.span[1], LAMBDA span : ReturnStmt(value, span))))

parse_block_statement(toks, p) ==
    TryParse(parse_block_expr(toks, p), LAMBDA block, q :
        POk(BlockStmt(block.statements, block.span), q))

parse_sync_threads(toks, p) ==
    TryParse(expect_all(toks, p, <<"SyncThreads", "LeftParen", "RightParen">>),
             LAMBDA close, q :
        terminated(toks, q, peek(toks, p).span[1], LAMBDA span : SyncThreads(span)))

parse_load_shared(toks, p) ==
    TryParse(expect_all(toks, p, <<"LoadShared", "LeftParen", "Identifier", "Comma">>),
             LAMBDA comma, q :
    TryParse(parse_expression(toks, q), LAMBDA src, q2 :
    TryParse(expect(toks, q2, "RightParen"), LAMBDA close, q3 :
        terminated(toks, q3, peek(toks, p).span[1], LAMBDA span :
            LoadShared(peek(toks, p + 2).text, src, span)))))

parse_type_def(toks, p) ==
    TryParse(expect_all(toks, p, <<"Type", "Identifier", "Assign">>), LAMBDA eq, q :
    TryParse(parse_type(toks, q), LAMBDA ty, q2 :
        terminated(toks, q2, peek(toks, p).span[1], LAMBDA span :
            TypeDef(peek(toks, p + 1).text, ty, span))))

RECURSIVE params_loop(_, _, _, _)
\* the parameter loop of parse_function and parse_kernel; parse_kernel
\* (`debug`) also prints tokens[current] after each parameter, an indexing
\* that panics when the parameter's type is the last token
params_loop(toks, p, params, debug) ==
    TryParse(expect_all(toks, p, <<"Identifier", "Colon">>), LAMBDA colon, q :
    TryParse(parse_type(toks, q), LAMBDA param_type, q2 :
        IF debug /\ q2 >= Len(toks) THEN PErr(IndexPanic, q2)
        ELSE IF check(toks, q2, "Comma")
        THEN params_loop(toks, q2 + 1,
                 Append(params, Param(peek(toks, p).text, param_type,
                                      span_from(toks, q2, peek(toks, p).span[1]))),
                 debug)
        ELSE POk(Append(params, Param(peek(toks, p).text, param_type,
                                      span_from(toks, q2, peek(toks, p).span[1]))),
                 q2)))

\* `if !check(RightParen) { loop {..} }`
parse_params(toks, p, debug) ==
    IF check(toks, p, "RightParen") THEN POk(<<>>, p)
    ELSE params_loop(toks, p, <<>>, debug)

\* `(params) -> T`: the parameter list and the optional return type
parse_signature(toks, p, debug) ==
    TryParse(expect(toks, p, "LeftParen"), LAMBDA open, q :
    TryParse(parse_params(toks, q, debug), LAMBDA params, q2 :
    TryParse(expect(toks, q2, "RightParen"), LAMBDA close, q3 :
    TryParse(optional_type(toks, q3, "Arrow"), LAMBDA return_type, q4 :
        POk([params |-> params, return_type |-> return_type], q4)))))

parse_function(toks, p) ==
    TryParse(expect_all(toks, p, <<"Fn", "Identifier">>), LAMBDA name, q :
    TryParse(parse_signature(toks, q, FALSE), LAMBDA sig, q2 :
    TryParse(parse_block_expr(toks, q2), LAMBDA body, q3 :
        spanned(toks, q3, peek(toks, p).span[1], LAMBDA span :
            FunctionStmt(name.text, sig.params, sig.return_type, body, span)))))

\* the `_` arm of parse_statement: an expression and an optional `;`
parse_expr_statement(toks, p) ==
    TryParse(parse_expression(toks, p), LAMBDA expr, q :
        POk(ExprStmt(expr), match_token(toks, q, "Semicolon")))

\* the match of parse_statement on the kind of the token at the cursor
parse_statement_of(toks, p, kind) ==
    CASE kind = "Let" -> parse_let_statement(toks, p)
      [] kind = "Var" -> parse_var_statement(toks, p)
      [] kind = "Const" -> parse_const_statement(toks, p)
      [] kind = "If" -> parse_if_statement(toks, p)
      [] kind = "While" -> parse_while_statement(toks, p)
      [] kind = "For" -> parse_for_statement(toks, p)
      [] kind = "Return" -> parse_return_statement(toks, p)
      [] kind = "LeftBrace" -> parse_block_statement(toks, p)
      [] kind = "SyncThreads" -> parse_sync_threads(toks, p)
      [] kind = "LoadShared" -> parse_load_shared(toks, p)
      [] kind = "Type" -> parse_type_def(toks, p)
      [] kind = "Fn" -> parse_function(toks, p)
      [] OTHER -> parse_expr_statement(toks, p)

\* parse_statement: the match, or UnexpectedEof when no token is left
parse_statement_at(toks, p) ==
    IF ~peek_is_some(toks, p) THEN PErr(UnexpectedEof, p)
    ELSE parse_statement_of(toks, p, peek(toks, p).kind)

----------------------------------------------------------------------------
(* Parser: kernels (flare/src/parser/kernel.rs) *)

\* `grid: [...]` and `block: [...]`
parse_dimensions(toks, p, keyword) ==
    TryParse(expect_all(toks, p, <<keyword, "Colon", "LeftBracket">>), LAMBDA open, q :
        parse_expr_list(toks, q, "RightBracket"))

parse_grid_block(toks, p) == parse_dimensions(toks, p, "Grid")

parse_block_config(toks, p) == parse_dimensions(toks, p, "Block")

\* one turn of parse_shared_memory_block's loop: `name : [shape]`
parse_shared_decl(toks, p) ==
    TryParse(expect_all(toks, p, <<"Identifier", "Colon", "LeftBracket">>),
             LAMBDA open, q :
    TryParse(parse_expr_list(toks, q, "RightBracket"), LAMBDA shape, q2 :
        POk(SharedMemoryDecl(peek(toks, p).text, shape, None,
                             span_from(toks, q2, peek(toks, p).span[1])), q2)))

RECURSIVE shared_decls_loop(_, _, _)
shared_decls_loop(toks, p, decls) ==
    IF ~check(toks, p, "RightBrace") /\ peek_is_some(toks, p)
    THEN TryParse(parse_shared_decl(toks, p), LAMBDA decl, q :
             shared_decls_loop(toks, q, Append(decls, decl)))
    ELSE POk(decls, p)

parse_shared_memory_block(toks, p) ==
    TryParse(expect_all(toks, p, <<"SharedMemory", "LeftBrace">>), LAMBDA open, q :
    TryParse(shared_decls_loop(toks, q, <<>>), LAMBDA decls, q2 :
        closed_by(toks, q2, "RightBrace", decls)))

parse_compute_block(toks, p) ==
    TryParse(expect_all(toks, p, <<"Compute", "LeftBrace">>), LAMBDA open, q :
    TryParse(block_statements_loop(toks, q, <<>>), LAMBDA statements, q2 :
        closed_by(toks, q2, "RightBrace", statements)))

RECURSIVE names_loop(_, _, _)
\* `loop { push(expect(Identifier)?); if !match_token(Comma) { break } }`
names_loop(toks, p, acc) ==
    TryParse(expect(toks, p, "Identifier"), LAMBDA name, q :
        IF check(toks, q, "Comma") THEN names_loop(toks, q + 1, Append(acc, name.text))
        ELSE POk(Append(acc, name.text), q))

parse_generic_params(toks, p) ==
    IF check(toks, p, "Less")
    THEN TryParse(names_loop(toks, p + 1, <<>>), LAMBDA names, q :
             closed_by(toks, q, "Greater", names))
    ELSE POk(<<>>, p)

SectionKeywords ==
    [Grid |-> "grid", Block |-> "block", SharedMemory |-> "shared_memory",
     Compute |-> "compute"]

parse_section(toks, p, kind) ==
    CASE kind = "Grid" -> parse_grid_block(toks, p)
      [] kind = "Block" -> parse_block_config(toks, p)
      [] kind = "SharedMemory" -> parse_shared_memory_block(toks, p)
      [] kind = "Compute" -> parse_compute_block(toks, p)

\* a section whose field keeps the occurrence it was first given
assign_section_first_kept(acc, field, section) ==
    IF acc[field] = None THEN [acc EXCEPT ![field] = Some(section)] ELSE acc

\* `grid = Some(self.parse_grid_block()?)` and its kin: the field is
\* overwritten
assign_section(acc, field, section) == [acc EXCEPT ![field] = Some(section)]

RECURSIVE kernel_sections_loop(_, _, _)
\* the section loop of parse_kernel: a section keyword assigns its field
\* (again, if it was already assigned); anything else is a body statement
kernel_sections_loop(toks, p, acc) ==
    IF ~check(toks, p, "RightBrace") /\ peek_is_some(toks, p)
    THEN IF peek(toks, p).kind \in DOMAIN SectionKeywords
         THEN TryParse(parse_section(toks, p, peek(toks, p).kind), LAMBDA section, q :
                  kernel_sections_loop(toks, q,
                      assign_section(acc, SectionKeywords[peek(toks, p).kind], section)))
         ELSE TryParse(parse_statement(toks, p), LAMBDA stmt, q :
                  kernel_sections_loop(toks, q, [acc EXCEPT !.body = Append(@, stmt)]))
    ELSE POk(acc, p)

NoSections ==
    [grid |-> None, block |-> None, shared_memory |-> None, compute |-> None,
     body |-> <<>>]

parse_kernel(toks, p) ==
    TryParse(expect_all(toks, p, <<"Kernel", "Identifier">>), LAMBDA name, q :
    TryParse(parse_generic_params(toks, q), LAMBDA generic_params, q2 :
    TryParse(parse_signature(toks, q2, TRUE), LAMBDA sig, q3 :
    TryParse(expect(toks, q3, "LeftBrace"), LAMBDA open, q4 :
    TryParse(kernel_sections_loop(toks, q4, NoSections), LAMBDA s, q5 :
    TryParse(expect(toks, q5, "RightBrace"), LAMBDA close, q6 :
        spanned(toks, q6, peek(toks, p).span[1], LAMBDA span :
            KernelDef(name.text, generic_params, sig.params, sig.return_type,
                      s.grid, s.block, s.shared_memory, s.compute, s.body, <<>>,
                      span))))))))

AttributeNames ==
    [FusionPoint |-> "fusion_point", Fusable |-> "fusable",
     FusionTransform |-> "fusion_transform", FusedKernel |-> "fused_kernel",
     Optimize |-> "optimize", AutoTune |-> "auto_tune",
     ScheduleAnnotation |-> "schedule", MemoryAnnotation |-> "memory",
     DependsOn |-> "depends_on", Independent |-> "independent",
     PreferParallel |-> "prefer_parallel", MustWait |-> "must_wait",
     DynamicDispatch |-> "dynamic_dispatch", PipelineDepth |-> "pipeline_depth",
     P2PTransferAnnotation |-> "p2p_transfer", AllReduceAnnotation |-> "all_reduce"]

Attribute(name, args, span) == [name |-> name, args |-> args, span |-> span]

AttributeArg(tok) ==
    [tag |-> IF tok.kind = "Identifier" THEN "Ident" ELSE tok.kind, val |-> tok.val]

RECURSIVE attribute_args_loop(_, _, _)
attribute_args_loop(toks, p, args) ==
    TryParse(advance(toks, p), LAMBDA arg_token, q :
        IF arg_token.kind \notin {"Identifier", "IntLiteral", "StringLiteral"}
        THEN PErr(UnexpectedToken("expected attribute argument, found "
                                  \o arg_token.kind), q)
        ELSE IF check(toks, q, "Comma")
        THEN attribute_args_loop(toks, q + 1, Append(args, AttributeArg(arg_token)))
        ELSE POk(Append(args, AttributeArg(arg_token)), q))

\* `if match_token(LeftParen) { if !check(RightParen) { loop {..} } expect(RightParen)? }`
parse_attribute_args(toks, p) ==
    IF check(toks, p, "LeftParen")
    THEN TryParse(IF check(toks, p + 1, "RightParen") THEN POk(<<>>, p + 1)
                  ELSE attribute_args_loop(toks, p + 1, <<>>), LAMBDA args, q :
             closed_by(toks, q, "RightParen", args))
    ELSE POk(<<>>, p)

attribute_name(name_token) ==
    IF name_token.kind = "Identifier" THEN name_token.text
    ELSE AttributeNames[name_token.kind]

parse_attribute(toks, p) ==
    TryParse(expect(toks, p, "At"), LAMBDA at, q :
    TryParse(advance(toks, q), LAMBDA name_token, q2 :
        IF name_token.kind # "Identifier" /\ name_token.kind \notin DOMAIN AttributeNames
        THEN PErr(UnexpectedToken("expected attribute name, found " \o name_token.kind),
                  q2)
        ELSE TryParse(parse_attribute_args(toks, q2), LAMBDA args, q3 :
                 spanned(toks, q3, at.span[1], LAMBDA span :
                     Attribute(attribute_name(name_token), args, span)))))

----------------------------------------------------------------------------
(* Parser: schedules, fusions and the program (flare/src/parser/core.rs) *)

\* `if let IntLiteral(n) = advance()?.kind { n } else { return Err(..) }`
expect_int(toks, p, what) ==
    TryParse(advance(toks, p), LAMBDA tok, q :
        IF tok.kind = "IntLiteral" THEN POk(tok.val, q)
        ELSE PErr(UnexpectedToken("expected integer for " \o what), q))

\* `if match_token(Comma) { Some(<integer>) } else { None }`
optional_int(toks, p, what) ==
    IF check(toks, p, "Comma") THEN some_of(expect_int(toks, p + 1, what))
    ELSE POk(None, p)

\* the end of a directive: `)` and an optional `;`
close_directive(toks, p, directive) ==
    TryParse(expect(toks, p, "RightParen"), LAMBDA close, q :
        POk(directive, match_token(toks, q, "Semicolon")))

\* `if y.is_some() && match_token(Comma) { Some(<integer>) } else { None }`
optional_tile_z(toks, p, y) ==
    IF IsSome(y) THEN optional_int(toks, p, "tile z") ELSE POk(None, p)

parse_tile(toks, p) ==
    TryParse(expect(toks, p + 1, "LeftParen"), LAMBDA open, q :
    TryParse(expect_int(toks, q, "tile x"), LAMBDA x, q2 :
    TryParse(optional_int(toks, q2, "tile y"), LAMBDA y, q3 :
    TryParse(optional_tile_z(toks, q3, y), LAMBDA z, q4 :
        close_directive(toks, q4, Tile(x, y, z))))))

parse_threads(toks, p) ==
    TryParse(expect(toks, p + 1, "LeftParen"), LAMBDA open, q :
    TryParse(expect_int(toks, q, "threads x"), LAMBDA x, q2 :
    TryParse(optional_int(toks, q2, "threads y"), LAMBDA y, q3 :
        close_directive(toks, q3, Threads(x, y)))))

\* vectorize(n) and unroll(n)
parse_count_directive(toks, p, what) ==
    TryParse(expect(toks, p + 1, "LeftParen"), LAMBDA open, q :
    TryParse(expect_int(toks, q, what), LAMBDA n, q2 :
        close_directive(toks, q2, IF what = "vectorize" THEN Vectorize(n) ELSE Unroll(n))))

FixedLocations ==
    [shared |-> "Shared", global |-> "Global", local |-> "Local",
     constant |-> "Constant"]

\* the memory location a token names
memory_location(t) ==
    IF t.kind # "Identifier" THEN MemoryLocation(t.kind)
    ELSE IF t.text \in DOMAIN FixedLocations THEN MemoryLocation(FixedLocations[t.text])
    ELSE MemoryLocationNamed(t.text)

parse_memory_directive(toks, p) ==
    TryParse(expect_all(toks, p + 1, <<"LeftParen", "Identifier", "Comma">>),
             LAMBDA comma, q :
    TryParse(advance(toks, q), LAMBDA location_token, q2 :
        IF location_token.kind \notin {"Identifier", "Persistent", "Temporary",
                                       "Streaming"}
        THEN PErr(UnexpectedToken("expected memory location"), q2)
        ELSE close_directive(toks, q2,
                 Memory(peek(toks, p + 2).text, memory_location(location_token)))))

parse_stream_directive(toks, p) ==
    TryParse(expect_all(toks, p + 1, <<"LeftParen", "Identifier">>), LAMBDA name, q :
        close_directive(toks, q, Stream(name.text)))

parse_pipeline_directive(toks, p) ==
    IF check(toks, p + 1, "LeftParen")
    THEN TryParse(advance(toks, p + 2), LAMBDA tok, q :
             close_directive(toks, q,
                 Pipeline(IF tok.kind = "IntLiteral" THEN Some(tok.val) ELSE None)))
    ELSE POk(Pipeline(None), match_token(toks, p + 1, "Semicolon"))

\* the match of parse_schedule's loop on the token at the cursor
parse_directive_of(toks, p, token) ==
    CASE token.kind = "Identifier" /\ token.text = "tile" -> parse_tile(toks, p)
      [] token.kind = "Identifier" /\ token.text \in {"vectorize", "unroll"} ->
            parse_count_directive(toks, p, token.text)
      [] token.kind = "Identifier" /\ token.text = "threads" -> parse_threads(toks, p)
      [] token.kind = "Memory" -> parse_memory_directive(toks, p)
      [] token.kind = "Stream" -> parse_stream_directive(toks, p)
      [] token.kind = "Pipeline" -> parse_pipeline_directive(toks, p)
      [] token.kind = "Parallel" -> POk(Parallel, match_token(toks, p + 1, "Semicolon"))
      [] OTHER -> PErr(UnexpectedToken("unknown schedule directive: " \o token.kind), p)

\* one turn of parse_schedule's loop: the directive at the cursor
parse_directive(toks, p) == parse_directive_of(toks, p, peek(toks, p))

RECURSIVE directives_loop(_, _, _)
directives_loop(toks, p, directives) ==
    IF ~check(toks, p, "RightBrace") /\ peek_is_some(toks, p)
    THEN TryParse(parse_directive(toks, p), LAMBDA directive, q :
             directives_loop(toks, q, Append(directives, directive)))
    ELSE POk(directives, p)

\* `if !check(LeftBrace) { Some(<identifier>) } else { None }`
schedule_target(toks, p) ==
    IF ~check(toks, p, "LeftBrace")
    THEN TryParse(expect(toks, p, "Identifier"), LAMBDA name, q : POk(Some(name.text), q))
    ELSE POk(None, p)

parse_schedule(toks, p) ==
    TryParse(expect(toks, p, "Schedule"), LAMBDA start, q :
    TryParse(schedule_target(toks, q), LAMBDA target, q2 :
    TryParse(expect(toks, q2, "LeftBrace"), LAMBDA open, q3 :
    TryParse(directives_loop(toks, q3, <<>>), LAMBDA directives, q4 :
    TryParse(expect(toks, q4, "RightBrace"), LAMBDA close, q5 :
        spanned(toks, q5, start.span[1], LAMBDA span :
            ScheduleBlock(target, directives, span)))))))

FusionBlock(targets, strategy, barriers, span) ==
    [targets |-> targets, strategy |-> strategy, barriers |-> barriers, span |-> span]

\* the strategy a token names: None leaves the token where it is
fusion_strategy_of(token, p) ==
    IF token.kind = "Identifier" /\ token.text = "elementwise"
    THEN POk(Some("Elementwise"), p + 1)
    ELSE IF token.kind \in {"Inline", "Auto"} THEN POk(Some(token.kind), p + 1)
    ELSE POk(None, p)

parse_fusion_strategy(toks, p) ==
    IF check(toks, p, "Colon")
    THEN IF peek_is_some(toks, p + 1)
         THEN fusion_strategy_of(peek(toks, p + 1), p + 1)
         ELSE POk(None, p + 1)
    ELSE POk(None, p)

parse_fusion_barriers(toks, p) ==
    IF check(toks, p, "Where")
    THEN TryParse(expect_all(toks, p + 1, <<"Identifier", "Assign", "LeftBracket">>),
                  LAMBDA open, q :
         TryParse(IF check(toks, q, "RightBracket") THEN POk(<<>>, q)
                  ELSE names_loop(toks, q, <<>>), LAMBDA barriers, q2 :
             closed_by(toks, q2, "RightBracket", barriers)))
    ELSE POk(<<>>, p)

parse_fusion(toks, p) ==
    TryParse(expect(toks, p, "Fuse"), LAMBDA start, q :
    TryParse(names_loop(toks, q, <<>>), LAMBDA targets, q2 :
    TryParse(parse_fusion_strategy(toks, q2), LAMBDA strategy, q3 :
    TryParse(parse_fusion_barriers(toks, q3), LAMBDA barriers, q4 :
        terminated(toks, q4, start.span[1], LAMBDA span :
            FusionBlock(targets, strategy, barriers, span))))))

Program(items, span) == [items |-> items, span |-> span]

RECURSIVE attributes_loop(_, _, _)
\* `while check(At) { attributes.push(parse_attribute()?) }`
attributes_loop(toks, p, attributes) ==
    IF check(toks, p, "At")
    THEN TryParse(parse_attribute(toks, p), LAMBDA attribute, q :
             attributes_loop(toks, q, Append(attributes, attribute)))
    ELSE POk(attributes, p)

\* the match of parse_program on the token at the cursor, after the
\* attributes before it
parse_item_of(toks, p, attributes, kind) ==
    CASE kind = "Kernel" ->
            TryParse(parse_kernel(toks, p), LAMBDA kernel, q :
                POk(KernelStmt([kernel EXCEPT !.attributes = attributes]), q))
      [] kind = "Fuse" ->
            TryParse(parse_fusion(toks, p), LAMBDA fusion, q : POk(FusionStmt(fusion), q))
      [] kind = "Schedule" ->
            TryParse(parse_schedule(toks, p), LAMBDA schedule, q :
                POk(ScheduleStmt(schedule), q))
      [] kind \in {"Fn", "Type", "Let"} -> parse_statement(toks, p)
      [] OTHER -> PErr(UnexpectedToken("Expected top-level item, found " \o kind), p)

parse_item(toks, p, attributes) == parse_item_of(toks, p, attributes, peek(toks, p).kind)

RECURSIVE items_loop(_, _, _)
items_loop(toks, p, items) ==
    IF peek_is_some(toks, p)
    THEN TryParse(attributes_loop(toks, p, <<>>), LAMBDA attributes, q :
             IF peek_is_some(toks, q)
             THEN TryParse(parse_item(toks, q, attributes), LAMBDA item, q2 :
                      items_loop(toks, q2, Append(items, item)))
             ELSE items_loop(toks, q, items))
    ELSE POk(items, p)

parse_program(toks, p) ==
    TryParse(items_loop(toks, p, <<>>), LAMBDA items, q :
        POk(Program(items, span_from(toks, q, 0)), q))

\* A method call on the parser: parse() itself, and the two methods the
\* productions re-enter
Parser_call(method, toks, p) ==
    CASE method = "parse" -> parse_program(toks, p)
      [] method = "parse_expression" -> parse_assignment(toks, p)
      [] method = "parse_statement" -> parse_statement_at(toks, p)

\* the Parser that Parser::new gives on a source (none on a lexing error: no
\* tokens), its cursor at the first token
Parser_over(lexemes) ==
    [tokens |-> IF Parser_new(lexemes).ok THEN Parser_new(lexemes).val ELSE <<>>,
     current |-> 0]

\* the loops of the parser whose body is entered under a condition on the
\* token at the cursor, and the loop over the items of a list
ParsingLoops ==
    {"items", "attributes", "sections", "block", "shared_memory", "schedule", "list"}

\* the condition under which the loop is entered again at cursor p:
\* `while self.peek().is_some()`, `while self.check(&TokenKind::At)`,
\* `while !self.check(&TokenKind::RightBrace) && self.peek().is_some()`, and
\* `loop`
loop_condition(loop, toks, p) ==
    CASE loop = "items" -> peek_is_some(toks, p)
      [] loop = "attributes" -> check(toks, p, "At")
      [] loop = "list" -> TRUE
      [] OTHER -> ~check(toks, p, "RightBrace") /\ peek_is_some(toks, p)

\* one turn of the loop from cursor p: what its body returns (the value it
\* pushes, or the error `?` returns) and the cursor it leaves
Parser_turn(loop, toks, p) ==
    CASE loop = "items" ->
            TryParse(attributes_loop(toks, p, <<>>), LAMBDA attributes, q :
                IF peek_is_some(toks, q) THEN parse_item(toks, q, attributes)
                ELSE POk(attributes, q))
      [] loop = "attributes" -> parse_attribute(toks, p)
      [] loop = "sections" ->
            IF peek(toks, p).kind \in DOMAIN SectionKeywords
            THEN parse_section(toks, p, peek(toks, p).kind)
            ELSE parse_statement(toks, p)
      [] loop = "block" -> parse_statement(toks, p)
      [] loop = "shared_memory" -> parse_shared_decl(toks, p)
      [] loop = "schedule" -> parse_directive(toks, p)
      [] loop = "list" ->
            TryParse(parse_expression(toks, p), LAMBDA item, q :
                POk(item, match_token(toks, q, "Comma")))

\* Parser::new(source)?.parse(): the source is given by its lexemes
compile_from_string(lexemes) ==
    IF Parser_new(lexemes).ok
    THEN Parser_call("parse", Parser_new(lexemes).val, 0)
    ELSE PErr(Parser_new(lexemes).err, 0)

----------------------------------------------------------------------------
(* Inputs: kernels and schedules handed to KernelGenerator through its API. *)
(* A kernel is described by its features in source order: each feature is  *)
(* one part beyond the empty kernel `kernel k() {}`.                        *)

MaxItems == 3

MaxRank == 4

Parts == <<"grid", "block", "generic", "param", "decl", "compute", "body", "directive">>

PartIndex(part) == CHOOSE i \in 1..Len(Parts) : Parts[i] = part

Feature(part, kind, rank) == [part |-> part, kind |-> kind, rank |-> rank]

ParamKinds == {"scalar", "pointer", "unknown"}

DeclKinds == {"typed", "untyped", "unshaped", "untyped_unshaped", "bad_dim"}

StmtKinds == {"let", "string"}

DirectiveKinds ==
    {"tile", "vectorize", "unroll", "threads_x", "threads_xy", "threads_wide",
     "memory", "stream", "pipeline", "parallel"}

Features ==
    {Feature(part, "", r) : part \in {"grid", "block"}, r \in 0..MaxRank}
        \cup {Feature("generic", "T", 0)}
        \cup {Feature("param", k, 0) : k \in ParamKinds}
        \cup {Feature("decl", k, 0) : k \in DeclKinds}
        \cup {Feature(part, k, 0) : part \in {"compute", "body"}, k \in StmtKinds}
        \cup {Feature("directive", k, 0) : k \in DirectiveKinds}

\* features come in the order of the parts; grid, block and the generic
\* parameter come at most once
InPartOrder(fs) ==
    \A i \in 1..(Len(fs) - 1) :
        \/ PartIndex(fs[i].part) < PartIndex(fs[i + 1].part)
        \/ /\ fs[i].part = fs[i + 1].part
           /\ fs[i].part \notin {"grid", "block", "generic"}

FeatureListsOf(features, n) ==
    {fs \in UNION {[1..k -> features] : k \in 0..n} : InPartOrder(fs)}

\* `sections`: the sections and the schedule are given even when empty
ShapesOf(features, n) ==
    {[features |-> fs, sections |-> FALSE] : fs \in FeatureListsOf(features, n)}
        \cup {[features |-> fs, sections |-> TRUE] :
                  fs \in FeatureListsOf(features, n - 1)}

\* the kernels and schedules of at most n features
KernelShapes(n) == ShapesOf(Features, n)

\* the number of features of the parts before `part`
PartStart(fs, part) ==
    Cardinality({i \in 1..Len(fs) : PartIndex(fs[i].part) < PartIndex(part)})

PartCount(fs, part) == Cardinality({i \in 1..Len(fs) : fs[i].part = part})

\* the positions of the features of one part, in order
PartPositions(fs, part) == [j \in 1..PartCount(fs, part) |-> PartStart(fs, part) + j]

\* every feature at position i lies in the bytes 10 * i .. 10 * i + 8
BuildDims(rank, at) ==
    [d \in 1..rank |-> IntLiteral(I64(4), <<at + d, at + d + 1>>)]

BuildParam(kind, at) ==
    Param("p" \o ToString(at),
          CASE kind = "scalar" -> TyF32
            [] kind = "pointer" -> TyPtr(TyF32)
            [] kind = "unknown" -> TyNamed("Foo"),
          <<at, at + 8>>)

BuildDecl(kind, at) ==
    SharedMemoryDecl("d" \o ToString(at),
        CASE kind \in {"typed", "untyped"} ->
                <<IntLiteral(I64(16), <<at + 3, at + 5>>), Ident("n", <<at + 6, at + 7>>)>>
          [] kind \in {"unshaped", "untyped_unshaped"} -> <<>>
          [] kind = "bad_dim" -> <<StringLiteral("s", <<at + 3, at + 6>>)>>,
        IF kind \in {"untyped", "untyped_unshaped"} THEN None ELSE Some(TyF32),
        <<at, at + 8>>)

BuildStmt(kind, at) ==
    CASE kind = "let" ->
            LetStmt("v" \o ToString(at), None, IntLiteral(I64(at), <<at + 6, at + 8>>),
                    <<at, at + 8>>)
      [] kind = "string" -> ExprStmt(StringLiteral("s", <<at + 1, at + 4>>))

BuildDirective(kind) ==
    CASE kind = "tile" -> Tile(I64(8), Some(I64(8)), None)
      [] kind = "vectorize" -> Vectorize(I64(4))
      [] kind = "unroll" -> Unroll(I64(2))
      [] kind = "threads_x" -> Threads(I64(32), None)
      [] kind = "threads_xy" -> Threads(I64(64), Some(I64(4)))
      [] kind = "threads_wide" -> Threads(I64High(1), None)
      [] kind = "memory" -> Memory("a", MemoryLocation("Shared"))
      [] kind = "stream" -> Stream("s0")
      [] kind = "pipeline" -> Pipeline(Some(I64(2)))
      [] kind = "parallel" -> Parallel

\* the items of one part, each built from its feature's kind and place
BuildItems(fs, at, Build(_, _)) ==
    [j \in 1..Len(at) |-> Build(fs[at[j]].kind, 10 * at[j])]

\* the Option<Vec<_>> of a section: None when the kernel does not have it
BuildSection(items, given) == IF Len(items) = 0 /\ ~given THEN None ELSE Some(items)

BuildRankAt(fs, at) ==
    IF Len(at) = 0 THEN None ELSE Some(BuildDims(fs[at[1]].rank, 10 * at[1]))

BuildRank(fs, part) == BuildRankAt(fs, PartPositions(fs, part))

BuildKernelOf(fs, sections) ==
    KernelDef("k",
        [j \in 1..PartCount(fs, "generic") |-> "T"],
        BuildItems(fs, PartPositions(fs, "param"), BuildParam),
        None,
        BuildRank(fs, "grid"),
        BuildRank(fs, "block"),
        BuildSection(BuildItems(fs, PartPositions(fs, "decl"), BuildDecl), sections),
        BuildSection(BuildItems(fs, PartPositions(fs, "compute"), BuildStmt), sections),
        BuildItems(fs, PartPositions(fs, "body"), BuildStmt),
        <<>>,
        <<0, 10 * (MaxItems + 2)>>)

BuildKernel(shape) == BuildKernelOf(shape.features, shape.sections)

BuildDirectives(fs, at) == [j \in 1..Len(at) |-> BuildDirective(fs[at[j]].kind)]

BuildSchedule(shape) ==
    IF PartCount(shape.features, "directive") = 0 /\ ~shape.sections THEN None
    ELSE Some(ScheduleBlock(None,
                  BuildDirectives(shape.features,
                                  PartPositions(shape.features, "directive")),
                  <<0, 0>>))

ConfigPool ==
    {KernelConfig_default, KernelConfig(<<U32(64), U32(2), U32(1)>>, U32(512), FALSE)}

GenerateRequest(kernel, schedule) ==
    [kind |-> "generate", kernel |-> kernel, schedule |-> schedule]

SizeRequest(kernel, schedule) ==
    [kind |-> "get_threadgroup_size", kernel |-> kernel, schedule |-> schedule]

Session(cfg, level, requests) ==
    [config |-> cfg, level |-> level, queue |-> requests, input |-> <<>>]

\* only the block section and the schedule bear on get_threadgroup_size
SizeFeatures == {f \in Features : f.part \in {"block", "directive"}}

KernelSessions(n) ==
    {Session(KernelConfig_default, 0,
             <<GenerateRequest(BuildKernel(shape), BuildSchedule(shape))>>) :
         shape \in KernelShapes(n)}
        \cup {Session(cfg, 0, <<SizeRequest(BuildKernel(shape), BuildSchedule(shape))>>) :
                  cfg \in ConfigPool, shape \in ShapesOf(SizeFeatures, n)}

----------------------------------------------------------------------------
(* The state machine: a caller holding one KernelGenerator (`config`,      *)
(* `stmt_gen` its StmtGenerator's indent_level), one StmtGenerator         *)
(* (`indent_level`) and one parsed program (`parsed`) makes the calls of   *)
(* `queue` in order; `last` is the call just made, `result` what it        *)
(* returned.                                                               *)

NoRequest == [kind |-> "none"]

Returned(r) == [ok |-> r.ok, val |-> r.val, err |-> r.err]

NoResult == Returned(Err(NoErr))

\* what compile_from_string returned, with the source its Program borrows
Parsed(source, r) == [ok |-> r.ok, val |-> r.val, err |-> r.err, source |-> source]

InitOf(sessions) ==
    \E s \in sessions :
        /\ queue = s.queue
        /\ lexer = Lexer_new(s.input)
        /\ parser = Parser_over(s.input)
        /\ config = s.config
        /\ stmt_gen = 0
        /\ indent_level = s.level
        /\ parsed = Parsed(<<>>, Err(NoErr))
        /\ last = NoRequest
        /\ result = NoResult

Calls(kind) == queue # <<>> /\ Head(queue).kind = kind

\* the call at the head of the queue has been made
Called == last' = Head(queue) /\ queue' = Tail(queue)

\* a KernelGenerator operation returned r, leaving stmt_gen at r.level
KernelReturns(r) == result' = Returned(r) /\ stmt_gen' = r.level

\* KernelGenerator::generate(kernel, schedule)
Generate ==
    /\ Calls("generate")
    /\ KernelReturns(KernelGenerator_generate(Head(queue).kernel, Head(queue).schedule,
                                              stmt_gen))
    /\ last' = [kind |-> "generate", kernel |-> Head(queue).kernel,
                schedule |-> Head(queue).schedule, level |-> stmt_gen]
    /\ queue' = Tail(queue)
    /\ UNCHANGED <<lexer, parser, config, indent_level, parsed>>

\* KernelGenerator::get_threadgroup_size(kernel, schedule)
GetThreadgroupSize ==
    /\ Calls("get_threadgroup_size")
    /\ result' = Ok(get_threadgroup_size(config, Head(queue).kernel, Head(queue).schedule))
    /\ Called
    /\ UNCHANGED <<lexer, parser, config, stmt_gen, indent_level, parsed>>

InitKernel == InitOf(KernelSessions(MaxItems))

NextKernel == Generate \/ GetThreadgroupSize

SpecKernel == InitKernel /\ [][NextKernel]_vars

----------------------------------------------------------------------------
(* Properties of KernelGenerator, checked under SpecKernel.                *)

Generated == last.kind = "generate"

Sized == last.kind = "get_threadgroup_size"

Outcome(r) == [ok |-> r.ok, err |-> r.err]

\* each part of a kernel emitted on its own, in the order: dimension
\* validation, generic parameters, parameter types, shared-memory
\* declarations, compute statements, body statements
SectionItems(section) == IF IsSome(section) THEN Unwrap(section) ELSE <<>>

PartOutcomes(kernel) ==
    << Outcome(validate_kernel(kernel)),
       Outcome(generate_signature([kernel EXCEPT !.params = <<>>])) >>
        \o [i \in 1..Len(kernel.params) |->
                Outcome(convert(kernel.params[i].ty, kernel.params[i].span))]
        \o [i \in 1..Len(SectionItems(kernel.shared_memory)) |->
                Outcome(generate_shared_memory(SectionItems(kernel.shared_memory)[i]))]
        \o [i \in 1..Len(SectionItems(kernel.compute)) |->
                Outcome(StmtGenerator_generate(SectionItems(kernel.compute)[i], 1))]
        \o [i \in 1..Len(kernel.body) |->
                Outcome(StmtGenerator_generate(kernel.body[i], 1))]

FailingParts(outcomes) == {i \in 1..Len(outcomes) : ~outcomes[i].ok}

FirstFailingPart(outcomes) ==
    CHOOSE i \in FailingParts(outcomes) : \A j \in FailingParts(outcomes) : i <= j

\* what the claimed order predicts for a kernel's parts
Predicted(outcomes) ==
    IF FailingParts(outcomes) = {} THEN NoErr
    ELSE outcomes[FirstFailingPart(outcomes)].err

\* the lines of a generated text that follow the scheduling comments
HintCount(schedule) ==
    IF IsSome(schedule) THEN 1 + Len(Unwrap(schedule).directives) ELSE 0

KernelText(text, schedule) == SubSeq(text, HintCount(schedule) + 1, Len(text))

\* C1: generate returns either the complete kernel text (the signature up
\* to the closing brace) or an error and no text; the error is that of the
\* first failing part in the order validation, generic parameters,
\* parameter types, shared-memory declarations, compute statements, body
\* statements.
C1_FirstErrorInOrder ==
    Generated =>
        /\ result.ok = (FailingParts(PartOutcomes(last.kernel)) = {})
        /\ result.err = Predicted(PartOutcomes(last.kernel))
        /\ ~result.ok => result.val = <<>>
        /\ result.ok =>
               /\ StartsWith(KernelText(result.val, last.schedule)[1],
                             "kernel void " \o last.kernel.name \o "(")
               /\ result.val[Len(result.val)] = "}"

\* a kernel with two invalid parts of different kinds has been refused
C1_Witness ==
    /\ Generated
    /\ ~result.ok
    /\ Cardinality(FailingParts(PartOutcomes(last.kernel))) >= 2
    /\ \E i, j \in FailingParts(PartOutcomes(last.kernel)) :
           PartOutcomes(last.kernel)[i].err.kind # PartOutcomes(last.kernel)[j].err.kind

Rank(section) == IF IsSome(section) THEN Len(Unwrap(section)) ELSE 0

BadDecl(decl) == ~IsSome(decl.ty) \/ Len(decl.shape) = 0

MustReject(kernel) ==
    \/ Len(kernel.generic_params) >= 1
    \/ Rank(kernel.grid) > 3
    \/ Rank(kernel.block) > 3
    \/ \E i \in 1..Len(SectionItems(kernel.shared_memory)) :
           BadDecl(SectionItems(kernel.shared_memory)[i])

WithoutDims(kernel) == [kernel EXCEPT !.grid = None, !.block = None]

\* C2: generate returns an error for every kernel with a generic
\* parameter, a grid or block of more than 3 dimensions, or a shared-memory
\* declaration lacking its type or its shape; a grid and block of at most 3
\* dimensions change nothing in what generate returns.
C2_RejectsInvalidKernels ==
    Generated =>
        /\ MustReject(last.kernel) => ~result.ok /\ result.val = <<>>
        /\ (Rank(last.kernel.grid) <= 3 /\ Rank(last.kernel.block) <= 3) =>
               /\ result.err.kind # "InvalidKernelConfig"
               /\ result = Returned(KernelGenerator_generate(WithoutDims(last.kernel),
                                                             last.schedule, 0))

\* a kernel with a 3-dimensional grid and an untyped declaration was refused
C2_Witness ==
    /\ Generated
    /\ Rank(last.kernel.grid) = 3
    /\ \E i \in 1..Len(SectionItems(last.kernel.shared_memory)) :
           ~IsSome(SectionItems(last.kernel.shared_memory)[i].ty)
    /\ ~result.ok

\* the number a u32 holds, as an i64
Widen(u) == <<u[1], u[2], 0, 0>>

ClaimedThreads(directive) ==
    << directive.x, IF IsSome(directive.y) THEN Unwrap(directive.y) ELSE I64(1), I64(1) >>

ClaimedSize(cfg, kernel, schedule) ==
    IF IsSome(schedule) /\ first_threads(Unwrap(schedule).directives) # 0
    THEN ClaimedThreads(
             Unwrap(schedule).directives[first_threads(Unwrap(schedule).directives)])
    ELSE IF Rank(kernel.block) = 1 THEN <<I64(256), I64(1), I64(1)>>
    ELSE IF Rank(kernel.block) = 2 THEN <<I64(16), I64(16), I64(1)>>
    ELSE IF Rank(kernel.block) = 3 THEN <<I64(8), I64(8), I64(8)>>
    ELSE [i \in 1..3 |-> Widen(cfg.default_threadgroup_size[i])]

\* C3: get_threadgroup_size returns (x, y or 1, 1) of the first Threads
\* directive; without one, the size of the block's rank 1, 2 or 3; without
\* that, the configured default.
C3_ThreadgroupSizePrecedence ==
    Sized =>
        [i \in 1..3 |-> Widen(result.val[i])] = ClaimedSize(config, last.kernel, last.schedule)

LinePrefix(name, i) == IF i = 1 THEN "kernel void " \o name \o "(" ELSE SignatureSeparatorPad

BufferSuffix(i) == " [[buffer(" \o ToString(i) \o ")]],"

HasSuffix(s, suffix) ==
    Len(s) >= Len(suffix) /\ SubSeq(s, Len(s) - Len(suffix) + 1, Len(s)) = suffix

RECURSIVE HasSubstring(_, _)
HasSubstring(s, part) ==
    Len(s) >= Len(part) /\ (StartsWith(s, part) \/ HasSubstring(SubSeq(s, 2, Len(s)), part))

BuiltinNames ==
    <<"thread_position_in_threadgroup", "threadgroup_position_in_grid",
      "threads_per_threadgroup">>

BuiltinLine(name, n, j) ==
    LinePrefix(name, n + j) \o "uint3 " \o BuiltinNames[j] \o " [[" \o BuiltinNames[j] \o "]]"
        \o (IF j = 3 THEN ")" ELSE ",")

SignatureAsClaimed(text, name, n) ==
    /\ Len(text) >= n + 4
    /\ \A i \in 1..n :
           /\ StartsWith(text[i], LinePrefix(name, i))
           /\ HasSuffix(text[i], BufferSuffix(i - 1))
    /\ \A j \in 1..3 :
           /\ text[n + j] = BuiltinLine(name, n, j)
           /\ ~HasSubstring(text[n + j], "[[buffer(")
    /\ text[n + 4] = "{"

\* C5: in the signature of a kernel with n parameters the i-th parameter
\* (from 0) carries [[buffer(i)]]; the three built-in parameters follow in
\* their fixed order and carry no buffer index, also when n = 0.
C5_BufferIndices ==
    (Generated /\ result.ok) =>
        SignatureAsClaimed(KernelText(result.val, last.schedule), last.kernel.name,
                           Len(last.kernel.params))

\* the signature of a kernel with at least two parameters has been emitted
C5_Witness == Generated /\ result.ok /\ Len(last.kernel.params) >= 2

Directives(schedule) == IF IsSome(schedule) THEN Unwrap(schedule).directives ELSE <<>>

\* C6: with a schedule of n directives generate returns n lines beginning
\* with "//", one per directive, and then the text it returns for the same
\* kernel without a schedule.
C6_HintsPrependedOnly ==
    (Generated /\ IsSome(last.schedule)) =>
        /\ result.ok = KernelGenerator_generate(last.kernel, None, 0).ok
        /\ result.ok =>
               /\ \A i \in 1..Len(Directives(last.schedule)) :
                      /\ i <= Len(result.val)
                      /\ StartsWith(result.val[i], "//")
               /\ SubSeq(result.val, Len(Directives(last.schedule)) + 1, Len(result.val))
                      = KernelGenerator_generate(last.kernel, None, 0).val

----------------------------------------------------------------------------
(* Inputs: expressions handed to ExprGenerator.  A shape names the variant *)
(* of a node and the shapes of its operands in emission order; the node    *)
(* built at place `id` has the span <<id, id + 1>> and its j-th operand is *)
(* built at place 4 * id + j, so that a span names one node.               *)

MaxDepth == 2

LeafKinds == {"ident", "string", "range", "tensor", "block", "bad_dim"}

WrapKinds ==
    {"binary", "unary", "call", "member", "index", "array", "if", "if_no_else",
     "assign", "compound", "cast", "bad_cast"}

Operands(kind) ==
    CASE kind \in {"unary", "member", "cast", "bad_cast"} -> 1
      [] kind = "if" -> 3
      [] OTHER -> 2

Shape(kind, kids) == [kind |-> kind, kids |-> kids]

Leaves == {Shape(k, <<>>) : k \in LeafKinds}

Siblings == {Shape("ident", <<>>), Shape("string", <<>>)}

\* the nodes with one operand from `inner` and the others among Siblings
Wrapped(inner) ==
    UNION {{Shape(w, [j \in 1..Operands(w) |-> IF j = i THEN c ELSE sib[j]]) :
                i \in 1..Operands(w), c \in inner, sib \in [1..Operands(w) -> Siblings]} :
           w \in WrapKinds}

RECURSIVE ExprShapes(_)
ExprShapes(depth) ==
    IF depth = 0 THEN Leaves
    ELSE ExprShapes(depth - 1) \cup Wrapped(ExprShapes(depth - 1))

At(id) == <<id, id + 1>>

RECURSIVE BuildExpr(_, _)
BuildExpr(shape, id) ==
    CASE shape.kind = "ident" -> Ident("a", At(id))
      [] shape.kind = "string" -> StringLiteral("s", At(id))
      [] shape.kind = "range" ->
            RangeExpr(Some(IntLiteral(I64(0), At(4 * id + 1))),
                      Some(Ident("n", At(4 * id + 2))), At(id))
      [] shape.kind = "tensor" ->
            TensorInit(TyF32, <<IntLiteral(I64(4), At(4 * id + 1))>>, At(id))
      [] shape.kind = "block" ->
            BlockExpr(<<ExprStmt(Ident("a", At(4 * id + 1)))>>, At(id))
      [] shape.kind = "bad_dim" -> ThreadIdx(Some("w"), At(id))
      [] shape.kind = "binary" ->
            Binary(BuildExpr(shape.kids[1], 4 * id + 1), "Add",
                   BuildExpr(shape.kids[2], 4 * id + 2), At(id))
      [] shape.kind = "unary" -> Unary("Neg", BuildExpr(shape.kids[1], 4 * id + 1), At(id))
      [] shape.kind = "call" ->
            Call(BuildExpr(shape.kids[1], 4 * id + 1),
                 <<BuildExpr(shape.kids[2], 4 * id + 2)>>, At(id))
      [] shape.kind = "member" ->
            Member(BuildExpr(shape.kids[1], 4 * id + 1), "f", At(id))
      [] shape.kind = "index" ->
            Index(BuildExpr(shape.kids[1], 4 * id + 1),
                  <<BuildExpr(shape.kids[2], 4 * id + 2)>>, At(id))
      [] shape.kind = "array" ->
            ArrayExpr(<<BuildExpr(shape.kids[1], 4 * id + 1),
                        BuildExpr(shape.kids[2], 4 * id + 2)>>, At(id))
      [] shape.kind = "if" ->
            IfExpr(BuildExpr(shape.kids[1], 4 * id + 1),
                   BuildExpr(shape.kids[2], 4 * id + 2),
                   Some(BuildExpr(shape.kids[3], 4 * id + 3)), At(id))
      [] shape.kind = "if_no_else" ->
            IfExpr(BuildExpr(shape.kids[1], 4 * id + 1),
                   BuildExpr(shape.kids[2], 4 * id + 2), None, At(id))
      [] shape.kind = "assign" ->
            Assign(BuildExpr(shape.kids[1], 4 * id + 1),
                   BuildExpr(shape.kids[2], 4 * id + 2), At(id))
      [] shape.kind = "compound" ->
            CompoundAssign(BuildExpr(shape.kids[1], 4 * id + 1), "Add",
                           BuildExpr(shape.kids[2], 4 * id + 2), At(id))
      [] shape.kind = "cast" -> Cast(BuildExpr(shape.kids[1], 4 * id + 1), TyF32, At(id))
      [] shape.kind = "bad_cast" ->
            Cast(BuildExpr(shape.kids[1], 4 * id + 1), TyNamed("Foo"), At(id))

ExprRequest(expr) == [kind |-> "expr", expr |-> expr]

ExprSessions(depth) ==
    {Session(KernelConfig_default, 0, <<ExprRequest(BuildExpr(shape, 1))>>) :
         shape \in ExprShapes(depth)}

\* ExprGenerator::generate(expr)
ExprGenerate ==
    /\ Calls("expr")
    /\ result' = ExprGenerator_generate(Head(queue).expr)
    /\ Called
    /\ UNCHANGED <<lexer, parser, config, stmt_gen, indent_level, parsed>>

InitExpr == InitOf(ExprSessions(MaxDepth))

NextExpr == ExprGenerate

SpecExpr == InitExpr /\ [][NextExpr]_vars

----------------------------------------------------------------------------
(* Properties of ExprGenerator, checked under SpecExpr.                    *)

ExprEmitted == last.kind = "expr"

OptionItems(o) == IF IsSome(o) THEN <<Unwrap(o)>> ELSE <<>>

\* the sub-expressions of a node that are emitted, in emission order
EmittedParts(expr) ==
    CASE expr.tag \in {"Binary"} -> <<expr.left, expr.right>>
      [] expr.tag \in {"Unary", "Cast"} -> <<expr.expr>>
      [] expr.tag = "Call" -> <<expr.func>> \o expr.args
      [] expr.tag = "Member" -> <<expr.object>>
      [] expr.tag = "Index" -> <<expr.object>> \o expr.indices
      [] expr.tag = "Array" -> expr.elements
      [] expr.tag = "If" ->
            <<expr.condition, expr.then_branch>> \o OptionItems(expr.else_branch)
      [] expr.tag \in {"Assign", "CompoundAssign"} -> <<expr.target, expr.value>>
      [] OTHER -> <<>>

\* the node itself cannot be emitted, whatever its parts
FailsItself(expr) ==
    \/ expr.tag \in RejectedTags
    \/ expr.tag = "If" /\ ~IsSome(expr.else_branch)
    \/ expr.tag = "Cast" /\ ~convert(expr.target_type, expr.span).ok
    \/ /\ expr.tag \in {"ThreadIdx", "BlockIdx", "BlockDim"}
       /\ IsSome(expr.dim)
       /\ Unwrap(expr.dim) \notin {"x", "y", "z", "0", "1", "2"}

OrElse(first, second) == IF IsSome(first) THEN first ELSE second

RECURSIVE FirstFailing(_)
RECURSIVE FirstFailingOf(_)

\* the first node met in emission order that cannot be emitted, if any
FirstFailingOf(exprs) ==
    IF Len(exprs) = 0 THEN None
    ELSE OrElse(FirstFailing(exprs[1]), FirstFailingOf(Tail(exprs)))

FirstFailing(expr) ==
    OrElse(FirstFailingOf(EmittedParts(expr)),
           IF FailsItself(expr) THEN Some(expr) ELSE None)

RejectedFirst(expr) ==
    IsSome(FirstFailing(expr)) /\ Unwrap(FirstFailing(expr)).tag \in RejectedTags

\* C7: ExprGenerator.generate returns UnsupportedFeature with the span of
\* the offending node, and no text, whenever the first sub-expression that
\* fails in emission order (the expression itself included) is a
\* StringLiteral, a Range, a TensorInit or a Block.
C7_RejectedVariants ==
    ExprEmitted =>
        /\ result.ok = ~IsSome(FirstFailing(last.expr))
        /\ RejectedFirst(last.expr) =>
               /\ ~result.ok
               /\ result.val = <<>>
               /\ result.err.kind = "UnsupportedFeature"
               /\ result.err.span = Unwrap(FirstFailing(last.expr)).span

\* a rejected variant two levels down was reported although a later operand
\* of the root fails too
C7_Witness ==
    /\ ExprEmitted
    /\ RejectedFirst(last.expr)
    /\ result.err.span[1] > 4
    /\ Len(EmittedParts(last.expr)) >= 2
    /\ IsSome(FirstFailing(EmittedParts(last.expr)[1]))
    /\ IsSome(FirstFailing(EmittedParts(last.expr)[2]))

----------------------------------------------------------------------------
(* Inputs: statements handed to a StmtGenerator, one or two in a row.      *)

MaxIndent == 2

RangeStarts ==
    {None, Some(IntLiteral(I64(1), <<9, 10>>)), Some(Ident("lo", <<9, 11>>)),
     Some(StringLiteral("s", <<9, 12>>))}

RangeEnds ==
    {None, Some(Ident("n", <<13, 14>>)), Some(IntLiteral(I64(8), <<13, 14>>)),
     Some(StringLiteral("e", <<13, 16>>))}

Iterators ==
    {RangeExpr(start, end, <<9, 16>>) : start \in RangeStarts, end \in RangeEnds}
        \cup {Ident("xs", <<9, 11>>),
              ArrayExpr(<<IntLiteral(I64(1), <<10, 11>>)>>, <<9, 12>>)}

LetOne == LetStmt("t", Some(TyI32), IntLiteral(I64(1), <<30, 31>>), <<19, 32>>)

InnerFor ==
    ForStmt("j", RangeExpr(None, Some(Ident("m", <<30, 31>>)), <<28, 31>>),
            BlockStmt(<<LetOne>>, <<32, 50>>), <<19, 50>>)

Bodies ==
    {BlockStmt(<<>>, <<17, 19>>),
     BlockStmt(<<LetOne>>, <<17, 34>>),
     ExprStmt(Assign(Ident("a", <<17, 18>>), Ident("i", <<21, 22>>), <<17, 22>>)),
     ExprStmt(StringLiteral("b", <<17, 20>>)),
     ReturnStmt(None, <<17, 24>>),
     InnerFor}

ForStmts ==
    {ForStmt("i", iterator, body, <<0, 60>>) : iterator \in Iterators, body \in Bodies}

\* statements emitted before a For by the same generator: one that fails
\* inside a braced body, one that succeeds
Earlier ==
    {ForStmt("k", RangeExpr(None, Some(Ident("n", <<13, 14>>)), <<9, 14>>),
             ExprStmt(StringLiteral("b", <<17, 20>>)), <<0, 21>>),
     LetOne}

StmtRequest(stmt) == [kind |-> "stmt", stmt |-> stmt]

StmtSessions ==
    {Session(KernelConfig_default, level, <<StmtRequest(stmt)>>) :
         level \in 0..MaxIndent, stmt \in ForStmts}
        \cup {Session(KernelConfig_default, 0, <<StmtRequest(first), StmtRequest(stmt)>>) :
                  first \in Earlier, stmt \in ForStmts}

\* a StmtGenerator operation returned r, leaving indent_level at r.level
StmtReturns(r) == result' = Returned(r) /\ indent_level' = r.level

\* the call at the head of the queue has been made by a generator whose
\* indent_level was `level`
CalledAt(level) ==
    /\ last' = [kind |-> Head(queue).kind, stmt |-> Head(queue).stmt, level |-> level]
    /\ queue' = Tail(queue)

\* StmtGenerator::generate(stmt)
StmtGenerate ==
    /\ Calls("stmt")
    /\ StmtReturns(StmtGenerator_generate(Head(queue).stmt, indent_level))
    /\ CalledAt(indent_level)
    /\ UNCHANGED <<lexer, parser, config, stmt_gen, parsed>>

InitStmt == InitOf(StmtSessions)

NextStmt == StmtGenerate

SpecStmt == InitStmt /\ [][NextStmt]_vars

----------------------------------------------------------------------------
(* Properties of StmtGenerator, checked under SpecStmt.                    *)

ForEmitted == last.kind = "stmt" /\ last.stmt.tag = "For"

IsStatementError(r) == ~r.ok /\ r.val = <<>> /\ r.err.kind = "StatementError"

Emits(option) == ~IsSome(option) \/ ExprGenerator_generate(Unwrap(option)).ok

CodeOr(option, default) ==
    IF IsSome(option) THEN ExprGenerator_generate(Unwrap(option)).val ELSE default

ForHeader(var, iterator) ==
    "for (int " \o var \o " = " \o CodeOr(iterator.start, "0") \o "; " \o var \o " < "
        \o CodeOr(iterator.end, "") \o "; " \o var \o "++) {"

\* the header, the body emitted one level deeper, the closing brace
ForText(stmt, level) ==
    << Repeat("    ", level) \o ForHeader(stmt.var, stmt.iterator) >>
        \o StmtGenerator_generate(stmt.body, level + 1).val
        \o << Repeat("    ", level) \o "}" >>

Lowerable(stmt, level) ==
    /\ stmt.iterator.tag = "Range"
    /\ IsSome(stmt.iterator.end)
    /\ Emits(stmt.iterator.start)
    /\ Emits(stmt.iterator.end)
    /\ StmtGenerator_generate(stmt.body, level + 1).ok

\* C8 as stated: a For whose range, bounds and body can be emitted yields
\* the header `for (int v = S; v < E; v++) {`, the body one level deeper and
\* a closing brace; a For whose iterator is not a Range, or is a Range
\* with no end, yields a StatementError and no text.
C8_AsStated ==
    ForEmitted =>
        /\ Lowerable(last.stmt, last.level) =>
               result.ok /\ result.val = ForText(last.stmt, last.level)
        /\ last.stmt.iterator.tag # "Range" => IsStatementError(result)
        /\ (last.stmt.iterator.tag = "Range" /\ ~IsSome(last.stmt.iterator.end)) =>
               IsStatementError(result)

\* C8: as above, but a Range with no end yields the StatementError only
\* when its start, if any, can be emitted; otherwise the error is the one
\* the start's emission returned, and there is no text.
C8_ForLowering ==
    ForEmitted =>
        /\ Lowerable(last.stmt, last.level) =>
               result.ok /\ result.val = ForText(last.stmt, last.level)
        /\ last.stmt.iterator.tag # "Range" => IsStatementError(result)
        /\ (last.stmt.iterator.tag = "Range" /\ ~IsSome(last.stmt.iterator.end)) =>
               IF Emits(last.stmt.iterator.start) THEN IsStatementError(result)
               ELSE /\ ~result.ok
                    /\ result.val = <<>>
                    /\ result.err = ExprGenerator_generate(Unwrap(last.stmt.iterator.start)).err

\* a For with a start and an end was lowered at a level above 0
C8_Witness ==
    /\ ForEmitted
    /\ Lowerable(last.stmt, last.level)
    /\ IsSome(last.stmt.iterator.start)
    /\ last.level > 0
    /\ result.ok
    /\ Len(result.val) > 2

----------------------------------------------------------------------------
(* Inputs: source texts, by their lexemes.  A kernel source is the head    *)
(* `kernel k ( ) {`, an arrangement of pieces (a shared_memory section, a  *)
(* compute section, loose statements) and the closing `}`.                 *)

MaxPieces == 4

SharedPieces == {"shared_empty", "shared_one", "shared_two"}

PieceNames == SharedPieces \cup {"compute", "body_a", "body_b"}

PieceLexemes(piece) ==
    CASE piece = "shared_empty" -> <<"shared_memory", "{", "}">>
      [] piece = "shared_one" ->
            <<"shared_memory", "{", "tile", ":", "[", "16", ",", "16", "]", "}">>
      [] piece = "shared_two" ->
            <<"shared_memory", "{", "tile", ":", "[", "16", ",", "16", "]",
              "buf", ":", "[", "n", "]", "}">>
      [] piece = "compute" ->
            <<"compute", "{", "let", "c", "=", "1", ";", "c", "=", "2", ";", "}">>
      [] piece = "body_a" -> <<"let", "a", "=", "1", ";">>
      [] piece = "body_b" -> <<"a", "=", "3", ";">>

\* every piece at most once, at most one shared_memory section
Arrangements ==
    {arr \in UNION {[1..n -> PieceNames] : n \in 0..MaxPieces} :
        /\ \A i, j \in 1..Len(arr) : i # j => arr[i] # arr[j]
        /\ Cardinality({i \in 1..Len(arr) : arr[i] \in SharedPieces}) <= 1}

RECURSIVE Flatten(_)
Flatten(seqs) == IF Len(seqs) = 0 THEN <<>> ELSE seqs[1] \o Flatten(Tail(seqs))

KernelSource(arr) ==
    <<"kernel", "k", "(", ")", "{">>
        \o Flatten([i \in 1..Len(arr) |-> PieceLexemes(arr[i])])
        \o <<"}">>

FnParams ==
    { <<>>, <<"a", ":", "i32">>, <<"a", ":", "f32", ",", "b", ":", "f32">> }

FnReturns == { <<>>, <<"->", "i32">>, <<"->", "f32">> }

FnBodies ==
    { <<"a">>, <<"a", "+", "b">>, <<"1">>, <<"f", "(", "a", ")">>,
      <<"a", "[", "0", "]">>, <<"-", "a">>, <<"a", ";">> }

FnSource(params, return_type, body) ==
    <<"fn", "f", "(">> \o params \o <<")">> \o return_type \o <<"{">> \o body \o <<"}">>

FnSources ==
    {FnSource(params, return_type, body) :
         params \in FnParams, return_type \in FnReturns, body \in FnBodies}

ParseRequest(source) == [kind |-> "parse", source |-> source]

EmitKernelRequest(item) == [kind |-> "emit_kernel", item |-> item]

EmitStmtRequest(item) == [kind |-> "emit_stmt", item |-> item]

\* kernels built through the API whose shared-memory declarations are typed
TypedFeatures ==
    {Feature("decl", "typed", 0), Feature("compute", "let", 0), Feature("body", "let", 0)}

ParseSessions(n) ==
    {Session(KernelConfig_default, 0,
             <<ParseRequest(KernelSource(arr)), EmitKernelRequest(1)>>) :
         arr \in Arrangements}
        \cup {Session(KernelConfig_default, 0,
                      <<ParseRequest(source), EmitStmtRequest(1)>>) : source \in FnSources}
        \cup {Session(KernelConfig_default, 0,
                      <<GenerateRequest(BuildKernel(shape), BuildSchedule(shape))>>) :
                  shape \in ShapesOf(TypedFeatures, n)}

\* Flare::compile_from_string(source)
Parse ==
    /\ Calls("parse")
    /\ parsed' = Parsed(Head(queue).source, compile_from_string(Head(queue).source))
    /\ result' = Returned(compile_from_string(Head(queue).source))
    /\ Called
    /\ UNCHANGED <<lexer, parser, config, stmt_gen, indent_level>>

HasItem(item, kernel) ==
    /\ parsed.ok
    /\ item \in 1..Len(parsed.val.items)
    /\ (parsed.val.items[item].tag = "Kernel") = kernel

\* KernelGenerator::generate on a kernel of the parsed program, no schedule
EmitKernel ==
    /\ Calls("emit_kernel")
    /\ HasItem(Head(queue).item, TRUE)
    /\ KernelReturns(KernelGenerator_generate(parsed.val.items[Head(queue).item].kernel,
                                              None, stmt_gen))
    /\ Called
    /\ UNCHANGED <<lexer, parser, config, indent_level, parsed>>

\* StmtGenerator::generate on another item of the parsed program
EmitStmt ==
    /\ Calls("emit_stmt")
    /\ HasItem(Head(queue).item, FALSE)
    /\ StmtReturns(StmtGenerator_generate(parsed.val.items[Head(queue).item],
                                          indent_level))
    /\ last' = [kind |-> "emit_stmt", item |-> Head(queue).item, level |-> indent_level]
    /\ queue' = Tail(queue)
    /\ UNCHANGED <<lexer, parser, config, stmt_gen, parsed>>

InitParse == InitOf(ParseSessions(MaxItems))

NextParse == Parse \/ EmitKernel \/ EmitStmt \/ Generate

SpecParse == InitParse /\ [][NextParse]_vars

----------------------------------------------------------------------------
(* Properties of parsing followed by emission, checked under SpecParse.    *)

KernelEmitted == last.kind = "emit_kernel"

FunctionEmitted ==
    last.kind = "emit_stmt" /\ parsed.val.items[last.item].tag = "Function"

EmittedKernel == parsed.val.items[last.item].kernel

\* what each piece is to leave in the kernel text, at the kernel's level
ComputeLines(piece) ==
    IF piece = "compute" THEN <<"    const auto c = 1;", "    c = 2;">> ELSE <<>>

BodyLines(piece) ==
    CASE piece = "body_a" -> <<"    const auto a = 1;">>
      [] piece = "body_b" -> <<"    a = 3;">>
      [] OTHER -> <<>>

Declares(arr) == \E i \in 1..Len(arr) : arr[i] \in {"shared_one", "shared_two"}

\* the text of a kernel whose source holds no declaration: the signature,
\* the compute statements, then the loose statements in source order
TextOfPieces(arr) ==
    signature_lines("k", BuiltinParams) \o <<"{">>
        \o Flatten([i \in 1..Len(arr) |-> ComputeLines(arr[i])])
        \o Flatten([i \in 1..Len(arr) |-> BodyLines(arr[i])])
        \o <<"}">>

DeclLines(decls) ==
    [i \in 1..Len(decls) |-> "    " \o generate_shared_memory(decls[i]).val]
        \o (IF Len(decls) = 0 THEN <<>> ELSE <<"">>)

StmtLines(stmts) ==
    Flatten([i \in 1..Len(stmts) |-> StmtGenerator_generate(stmts[i], 1).val])

\* the text of a kernel from its parts: declarations, compute, body
TextOfParts(kernel) ==
    generate_signature(kernel).val \o <<"{">>
        \o DeclLines(SectionItems(kernel.shared_memory))
        \o StmtLines(SectionItems(kernel.compute))
        \o StmtLines(kernel.body)
        \o <<"}">>

\* C4: whatever the order of the shared_memory section, the compute
\* section and the loose statements in a kernel's source, the text emitted
\* for it holds the shared-memory declarations first, then the compute
\* statements in source order, then the loose statements in source order.
C4_SectionOrder ==
    /\ (KernelEmitted /\ result.ok) =>
           /\ result.val = TextOfParts(EmittedKernel)
           /\ \A arr \in Arrangements :
                  parsed.source = KernelSource(arr) => result.val = TextOfPieces(arr)
    /\ (Generated /\ result.ok) =>
           KernelText(result.val, last.schedule) = TextOfParts(last.kernel)

\* a kernel whose source has a loose statement, then the compute section,
\* then another loose statement has been emitted
C4_Witness ==
    /\ KernelEmitted
    /\ result.ok
    /\ parsed.source = KernelSource(<<"body_b", "compute", "shared_empty", "body_a">>)

DeclaredBeforeStatements(text, decl) ==
    \E i \in 1..Len(text) :
        /\ StartsWith(text[i], "    threadgroup ")
        /\ HasSuffix(text[i], " " \o decl)
        /\ \A j \in 1..(i - 1) : ~StartsWith(text[j], "    const auto ")

\* C9: compiling a kernel whose shared_memory section declares
\* `tile: [16, 16]` succeeds, and the text holds a threadgroup declaration
\* `tile[16 * 16]` before the kernel's statements.
C9_SharedMemoryFromSource ==
    \A arr \in Arrangements :
        (KernelEmitted /\ parsed.source = KernelSource(arr) /\ Declares(arr)) =>
            /\ result.ok
            /\ DeclaredBeforeStatements(result.val, "tile[16 * 16]")

FunctionBody(function) == function.body.statements[1].expr

FunctionText(function) ==
    << function_return_type(function.return_type, function.span).val \o " "
           \o function.name \o "(" \o Join(function_params(function.params).val, ", ")
           \o ") {",
       "    return " \o ExprGenerator_generate(FunctionBody(function)).val \o ";",
       "}" >>

\* C10: a function parsed from `fn name(params) -> T { e }` with one
\* permitted expression e is emitted as `<T'> name(<params>) {`,
\* `return <e'>;`, `}` (void without a return type); it is not rejected.
C10_ParsedFunctionEmitted ==
    FunctionEmitted =>
        /\ result.ok
        /\ result.val = FunctionText(parsed.val.items[last.item])

----------------------------------------------------------------------------
(* Properties of the emitted parameters, checked under SpecKernel. *)

ScalarNames ==
    [I32 |-> "int", I64 |-> "long", U32 |-> "uint", U64 |-> "ulong", F32 |-> "float",
     F64 |-> "double", Bool |-> "bool"]

IsScalarPointer(ty) == ty.tag = "Ptr" /\ ty.dtype.tag \in DOMAIN ScalarNames

\* the line of the i-th parameter `p: *T` as `device <T'>* p [[buffer(i - 1)]]`
PointerLineAsClaimed(kernel, i) ==
    LinePrefix(kernel.name, i) \o "device " \o ScalarNames[kernel.params[i].ty.dtype.tag]
        \o "* " \o kernel.params[i].name \o BufferSuffix(i - 1)

\* C11: a parameter `p: *T` with a scalar T is emitted in the signature as
\* exactly `device <T'>* p [[buffer(N)]]`, the asterisk attached to the type
\* and one space before the name.
C11_PointerParameterText ==
    (Generated /\ result.ok) =>
        \A i \in 1..Len(last.kernel.params) :
            IsScalarPointer(last.kernel.params[i].ty) =>
                KernelText(result.val, last.schedule)[i]
                    = PointerLineAsClaimed(last.kernel, i)

----------------------------------------------------------------------------
(* Inputs: types handed to TypeConverter::convert.  The element type of a *)
(* vector or a matrix is a scalar, a named type, or a type nested at most *)
(* MaxTypeDepth deep.                                                      *)

MaxTypeDepth == 1

ScalarTypes == {TyI32, TyI64, TyU32, TyU64, TyF32, TyF64, TyBool}

ElementNames == {"half", "short", "ushort", "char", "uchar", "long", "float2", "Foo"}

\* names inside and outside the allowlist of is_known_metal_type
NamePool ==
    { "int", "uint", "float", "double", "bool", "short", "ushort", "char", "uchar",
      "long", "ulong", "half", "size_t", "ptrdiff_t" }
        \cup {base \o n : base \in {"int", "uint", "float", "half", "double", "bool"},
                          n \in {"1", "2", "3", "4", "5"}}
        \cup {base \o c \o "x" \o r : base \in {"float", "half", "int"},
                                      c \in {"2", "3", "4"}, r \in {"2", "3", "4", "5"}}
        \cup {"Foo", "Float", "f32", "void", "float4x", "ssize_t"}

\* the lexemes a vector's length is given by
LenPool ==
    {None} \cup {Some(l) : l \in {"0", "1", "2", "3", "4", "5", "x", "y", "z", "w", "N",
                                  "02", "+2", "2.0"}}

\* the lexemes a matrix's dimension is given by
DimPool ==
    {None} \cup {Some(d) : d \in {"0", "1", "2", "3", "4", "5", "N", "x", "03", "+3",
                                  "3.0", "16"}}

RECURSIVE ElementTypes(_)
ElementTypes(depth) ==
    IF depth = 0 THEN ScalarTypes \cup {TyNamed(n) : n \in ElementNames}
    ELSE ElementTypes(depth - 1)
             \cup {TyPtr(t) : t \in ElementTypes(depth - 1)}
             \cup {TyVector(t, Some("2")) : t \in ElementTypes(depth - 1)}
             \cup {TyArray(t, None) : t \in ElementTypes(depth - 1)}

TypePool(depth) ==
    {TyNamed(n) : n \in NamePool}
        \cup {TyVector(t, l) : t \in ElementTypes(depth), l \in LenPool}
        \cup {TyMatrix(t, r, c) : t \in ElementTypes(depth), r \in DimPool, c \in DimPool}

ConvertRequest(ty) == [kind |-> "convert", ty |-> ty, span |-> <<0, 8>>]

TypeSessions(depth) ==
    {Session(KernelConfig_default, 0, <<ConvertRequest(ty)>>) : ty \in TypePool(depth)}

\* TypeConverter::convert(ty, span)
Convert ==
    /\ Calls("convert")
    /\ result' = Returned(convert(Head(queue).ty, Head(queue).span))
    /\ Called
    /\ UNCHANGED <<lexer, parser, config, stmt_gen, indent_level, parsed>>

InitType == InitOf(TypeSessions(MaxTypeDepth))

NextType == Convert

SpecType == InitType /\ [][NextType]_vars

----------------------------------------------------------------------------
(* Properties of TypeConverter, checked under SpecType. *)

Converted == last.kind = "convert"

Refused == ~result.ok /\ result.val = <<>> /\ result.err.kind = "UnsupportedType"

Gives(text) == result.ok /\ result.val.msl_type = text

\* the MSL name a scalar or a named scalar converts to; "" for another type
ScalarBase(ty) ==
    IF ty.tag \in DOMAIN ScalarNames THEN ScalarNames[ty.tag]
    ELSE IF ty.tag = "Named"
            /\ ty.name \in {"int", "uint", "float", "double", "bool", "short", "ushort",
                            "char", "uchar", "long", "ulong", "half"}
    THEN ty.name
    ELSE ""

\* the integer a dimension's lexeme denotes; -1 when it is absent or denotes none
IntegerOf(dim) ==
    IF dim = None THEN -1
    ELSE CASE Unwrap(dim) \in {"0"} -> 0
           [] Unwrap(dim) \in {"1"} -> 1
           [] Unwrap(dim) \in {"2", "02", "+2"} -> 2
           [] Unwrap(dim) \in {"3", "03", "+3"} -> 3
           [] Unwrap(dim) \in {"4"} -> 4
           [] Unwrap(dim) \in {"5"} -> 5
           [] Unwrap(dim) \in {"16"} -> 16
           [] OTHER -> -1

\* C12: convert on Matrix{dtype, rows = R, cols = C} returns `<base><C>x<R>`
\* when dtype converts to float or half and R and C are integers in 2..4,
\* and UnsupportedType for another base or a missing, non-integer or
\* out-of-range dimension.
C12_MatrixColumnsFirst ==
    (Converted /\ last.ty.tag = "Matrix") =>
        IF /\ ScalarBase(last.ty.dtype) \in {"float", "half"}
           /\ IntegerOf(last.ty.rows) \in 2..4
           /\ IntegerOf(last.ty.cols) \in 2..4
        THEN Gives(ScalarBase(last.ty.dtype) \o ToString(IntegerOf(last.ty.cols))
                       \o "x" \o ToString(IntegerOf(last.ty.rows)))
        ELSE Refused

\* a matrix of 2 rows and 4 columns has been converted
C12_Witness ==
    /\ Converted /\ last.ty = TyMatrix(TyF32, Some("2"), Some("4"))
    /\ Gives("float4x2")

\* the length a vector's lexeme resolves to; -1 when absent or none
LengthOf(len) ==
    IF len = None THEN -1
    ELSE CASE Unwrap(len) = "x" -> 2
           [] Unwrap(len) = "y" -> 3
           [] Unwrap(len) = "z" -> 4
           [] OTHER -> IntegerOf(len)

VectorBases ==
    {"int", "uint", "float", "double", "bool", "short", "ushort", "char", "uchar"}

\* C13: convert on Vector{dtype, len} returns `<base><N>` exactly when len
\* resolves to 2, 3 or 4 (x, y, z read as 2, 3, 4) and dtype converts to int,
\* uint, float, double, bool, short, ushort, char or uchar; otherwise it
\* returns UnsupportedType.
C13_VectorLengths ==
    (Converted /\ last.ty.tag = "Vector") =>
        IF LengthOf(last.ty.len) \in 2..4 /\ ScalarBase(last.ty.dtype) \in VectorBases
        THEN Gives(ScalarBase(last.ty.dtype) \o ToString(LengthOf(last.ty.len)))
        ELSE Refused

\* a vector whose length is the shorthand `y` has been converted
C13_Witness ==
    /\ Converted /\ last.ty = TyVector(TyNamed("uchar"), Some("y"))
    /\ Gives("uchar3")

\* the allowlist as claimed: the scalars, size_t, ptrdiff_t, the vectors
\* {int,uint,float,half}{2,3,4} and the matrices {float,half}{C}x{R}
ClaimedAllowlist ==
    { "int", "uint", "float", "double", "bool", "short", "ushort", "char", "uchar",
      "long", "ulong", "half", "size_t", "ptrdiff_t" }
        \cup {base \o n : base \in {"int", "uint", "float", "half"}, n \in {"2", "3", "4"}}
        \cup {base \o c \o "x" \o r : base \in {"float", "half"},
                                      c \in {"2", "3", "4"}, r \in {"2", "3", "4"}}

\* C14: convert on Named(n) returns n unchanged for every n of the
\* allowlist, the non-square matrices included, and UnsupportedType for
\* every other name.
C14_NamedAllowlist ==
    (Converted /\ last.ty.tag = "Named") =>
        IF last.ty.name \in ClaimedAllowlist THEN Gives(last.ty.name) ELSE Refused

----------------------------------------------------------------------------
(* Inputs: attributes written before a kernel.                             *)

MaxAttrs == 2

\* ordinary identifiers, and the names of four of the annotation markers
\* of token.rs:165-196
PlainAttrNames == {"tuned", "x"}

MarkerAttrNames == {"optimize", "fusion_point", "schedule", "all_reduce"}

\* the argument lists an attribute is written with: none, `()`, `(4, x)`
AttrArgForms == {<<>>, <<"(", ")">>, <<"(", "4", ",", "x", ")">>}

WrittenAttrs ==
    {[name |-> name, args |-> args] :
         name \in PlainAttrNames \cup MarkerAttrNames, args \in AttrArgForms}

\* `@name` or `@name(args)`, the name directly after the `@`
AttrLexemes(attr) == <<"@" \o attr.name>> \o attr.args

\* the attributes, each on its own line, before an empty kernel
AttrSource(attrs) ==
    Flatten([i \in 1..Len(attrs) |-> AttrLexemes(attrs[i]) \o <<"\n">>])
        \o <<"kernel", "k", "(", ")", "{", "}">>

\* a request to parse a kernel with attributes, with how they were written
AttrRequest(attrs) == [kind |-> "parse", source |-> AttrSource(attrs), attrs |-> attrs]

AttrSessions(n) ==
    {Session(KernelConfig_default, 0, <<AttrRequest(attrs)>>) :
         attrs \in UNION {[1..m -> WrittenAttrs] : m \in 1..n}}

----------------------------------------------------------------------------
(* Inputs: kernels whose body names sections more than once.               *)

MaxSections == 3

\* two ways of writing each section; `holds` names what the section holds:
\* its dimensions, the names it declares, or its statements
SectionPieces ==
    { [kind |-> "grid", lexemes |-> <<"grid", ":", "[", "1", "]">>, holds |-> <<"1">>],
      [kind |-> "grid", lexemes |-> <<"grid", ":", "[", "2", ",", "n", "]">>,
       holds |-> <<"2", "n">>],
      [kind |-> "block", lexemes |-> <<"block", ":", "[", "4", "]">>, holds |-> <<"4">>],
      [kind |-> "block", lexemes |-> <<"block", ":", "[", "]">>, holds |-> <<>>],
      [kind |-> "shared_memory",
       lexemes |-> <<"shared_memory", "{", "t", ":", "[", "8", "]", "}">>,
       holds |-> <<"t">>],
      [kind |-> "shared_memory",
       lexemes |-> <<"shared_memory", "{", "u", ":", "[", "8", "]", "v", ":", "[", "]", "}">>,
       holds |-> <<"u", "v">>],
      [kind |-> "compute", lexemes |-> <<"compute", "{", "a", ";", "}">>,
       holds |-> <<"a">>],
      [kind |-> "compute", lexemes |-> <<"compute", "{", "b", ";", "c", ";", "}">>,
       holds |-> <<"b", "c">>] }

SectionKinds == {"grid", "block", "shared_memory", "compute"}

\* a kernel whose body is the sections, each on its own line
SectionsSource(pieces) ==
    <<"kernel", "k", "(", ")", "{", "\n">>
        \o Flatten([i \in 1..Len(pieces) |-> pieces[i].lexemes \o <<"\n">>])
        \o <<"}">>

\* a request to parse a kernel, with the sections it was written with
SectionsRequest(pieces) ==
    [kind |-> "parse", source |-> SectionsSource(pieces), sections |-> pieces]

SectionsSessions(n) ==
    {Session(KernelConfig_default, 0, <<SectionsRequest(pieces)>>) :
         pieces \in UNION {[1..m -> SectionPieces] : m \in 1..n}}

----------------------------------------------------------------------------
(* Inputs: source texts for the lexer and the parser alone.                *)

\* lexemes the lexer has no token for: a character starting no token and
\* integer literals above i64::MAX
BadLexemes == {"#", "$", "9223372036854775808", "99999999999999999999"}

\* a kernel whose literal is i64::MAX
LexTemplate ==
    <<"kernel", "k", "(", ")", "{", "let", "x", "=", "9223372036854775807", ";", "}">>

InsertAt(seq, i, x) == SubSeq(seq, 1, i) \o <<x>> \o SubSeq(seq, i + 1, Len(seq))

LexSources ==
    {LexTemplate} \cup
        {InsertAt(LexTemplate, i, bad) : i \in 0..Len(LexTemplate), bad \in BadLexemes}

MaxTokens == 4

\* sources whose kernel and function headers carry every part a header has
HeaderTemplates ==
    { <<"kernel", "k", "<", "T", ",", "U", ">", "(", "a", ":", "*", "f32", ",",
        "b", ":", "Tensor", "<", "f32", ",", "[", "M", ",", "N", "]", ">", ")",
        "->", "f32", "{", "grid", ":", "[", "1", "]", "a", "=", "1", ";", "}">>,
      <<"kernel", "k", "(", "a", ":", "i32", ")", "{", "}">>,
      <<"fn", "f", "(", "a", ":", "i32", ")", "->", "i32", "{", "a", "}">> }

\* a template cut after any number of its lexemes
Prefixes(templates) == UNION {{SubSeq(t, 1, n) : n \in 0..Len(t)} : t \in templates}

HeaderLexemes == {"a", ":", "*", "f32", ",", ")", "{", "}"}

\* `kernel k (` followed by up to n lexemes of a parameter list
HeaderSources(n) ==
    {<<"kernel", "k", "(">> \o rest : rest \in UNION {[1..m -> HeaderLexemes] : m \in 0..n}}

TokenSources(n) == Prefixes(HeaderTemplates) \cup HeaderSources(n)

\* a kernel with an attribute, parameters and the sections of its header
RichKernelSource ==
    <<"@", "tuned", "(", "4", ",", "x", ")", "\n",
      "kernel", "k", "(", "a", ":", "*", "f32", ",", "n", ":", "i32", ")", "->", "f32",
      "{", "\n",
      "grid", ":", "[", "n", ",", "1", "]", "\n",
      "block", ":", "[", "16", "]", "\n",
      "shared_memory", "{", "tile", ":", "[", "16", ",", "16", "]", "}", "\n",
      "}">>

\* a kernel with a compute section and branches
RichComputeSource ==
    <<"kernel", "k", "(", ")", "{",
      "compute", "{",
          "let", "i", "=", "thread_idx", ".", "x", ";",
          "if", "i", "<", "n", "{", "a", "[", "i", "]", "=", "-", "a", "[", "i", "]",
              "*", "2", ";", "}", "else", "{", "return", ";", "}",
      "}", "}">>

\* a kernel with loops
RichLoopsSource ==
    <<"kernel", "k", "(", ")", "{",
      "for", "j", "in", "0", "..", "n", "{", "sync_threads", "(", ")", ";", "}",
      "while", "!", "done", "{", "x", "+=", "f", "(", "1", ",", "2", ")", ".", "y", ";", "}",
      "}">>

\* a schedule, a fusion, a function, a type definition and a binding
RichItemsSource ==
    <<"schedule", "k", "{", "tile", "(", "16", ",", "16", ")", ";", "threads", "(", "8",
      ")", "parallel", "}", "\n",
      "fuse", "a", ",", "b", ":", "inline", "where", "barriers", "=", "[", "c", "]", ";",
      "fn", "f", "(", "a", ":", "i32", ")", "->", "i32", "{", "a", "}", "\n",
      "type", "T", "=", "f32", ";",
      "let", "z", "=", "[", "1", ",", "2.5", "]", ";">>

RichSources ==
    {RichKernelSource, RichComputeSource, RichLoopsSource, RichItemsSource, <<>>, <<"\n">>}
        \cup {KernelSource(arr) : arr \in Arrangements} \cup FnSources

MaxOps == 2

\* the infix operators: the lexeme, the level in the order assignment (1),
\* logical-or, logical-and, equality, comparison, range, additive,
\* multiplicative (8), and the name the tree is shown with
InfixOps ==
    ("=" :> [level |-> 1, show |-> "="]) @@ ("+=" :> [level |-> 1, show |-> "Add="])
    @@ ("-=" :> [level |-> 1, show |-> "Sub="]) @@ ("*=" :> [level |-> 1, show |-> "Mul="])
    @@ ("/=" :> [level |-> 1, show |-> "Div="])
    @@ ("||" :> [level |-> 2, show |-> "Or"]) @@ ("&&" :> [level |-> 3, show |-> "And"])
    @@ ("==" :> [level |-> 4, show |-> "Equal"])
    @@ ("!=" :> [level |-> 4, show |-> "NotEqual"])
    @@ ("<" :> [level |-> 5, show |-> "Less"]) @@ (">" :> [level |-> 5, show |-> "Greater"])
    @@ ("<=" :> [level |-> 5, show |-> "LessEqual"])
    @@ (">=" :> [level |-> 5, show |-> "GreaterEqual"])
    @@ (".." :> [level |-> 6, show |-> ".."])
    @@ ("+" :> [level |-> 7, show |-> "Add"]) @@ ("-" :> [level |-> 7, show |-> "Sub"])
    @@ ("*" :> [level |-> 8, show |-> "Mul"]) @@ ("/" :> [level |-> 8, show |-> "Div"])
    @@ ("%" :> [level |-> 8, show |-> "Mod"])

AssignLevel == InfixOps["="].level

RangeLevel == InfixOps[".."].level

OperandNames == <<"a", "b", "c", "d", "e">>

\* how every operand of an expression is written: alone, under prefix
\* operators, with postfix operators, or with both
OperandForms == {"plain", "neg", "not_neg", "postfix", "neg_index"}

OperandLexemes(form, x) ==
    CASE form = "plain" -> <<x>>
      [] form = "neg" -> <<"-", x>>
      [] form = "not_neg" -> <<"!", "-", x>>
      [] form = "postfix" -> <<x, "(", "u", ")", ".", "f">>
      [] form = "neg_index" -> <<"-", x, "[", "u", "]">>

ExprLexemes(ops, form) ==
    OperandLexemes(form, OperandNames[1])
        \o Flatten([i \in 1..Len(ops) |->
                        <<ops[i]>> \o OperandLexemes(form, OperandNames[i + 1])])

\* two `..` with no operator of a lower level between them: range does
\* not associate, and such an expression has no tree
RangeChained(ops) ==
    \E i, j \in 1..Len(ops) :
        /\ i < j
        /\ ops[i] = ".." /\ ops[j] = ".."
        /\ \A k \in (i + 1)..(j - 1) : InfixOps[ops[k]].level >= RangeLevel

OpSequences(n) ==
    {ops \in UNION {[1..m -> DOMAIN InfixOps] : m \in 0..n} : ~RangeChained(ops)}

\* the expression as the value of a top-level binding
ExprSource(ops, form) == <<"let", "r", "=">> \o ExprLexemes(ops, form) \o <<";">>

\* a request to parse an expression, with how its source was written
OperatorRequest(ops, form) ==
    [kind |-> "parse", source |-> ExprSource(ops, form), ops |-> ops, form |-> form]

OperatorSessions(n) ==
    {Session(KernelConfig_default, 0, <<OperatorRequest(ops, form)>>) :
         ops \in OpSequences(n), form \in OperandForms}

MaxStmts == 2

\* statements of a block, the last three beginning with `(`, `[` and `-`
StatementPool ==
    { <<"a">>, <<"x", "=", "1">>, <<"f", "(", "g", ")">>, <<"let", "y", "=", "2">>,
      <<"return", "e">>, <<"(", "b", ")">>, <<"[", "c", "]">>, <<"-", "d">> }

Separators == {";", "\n"}

\* a function whose block holds the statements, each followed by sep
BlockSource(stmts, sep) ==
    <<"fn", "f", "(", ")", "{">>
        \o Flatten([i \in 1..Len(stmts) |-> stmts[i] \o <<sep>>])
        \o <<"}">>

\* a request to parse a block, with how its source was written
BlockRequest(stmts, sep) ==
    [kind |-> "parse", source |-> BlockSource(stmts, sep), stmts |-> stmts, sep |-> sep]

BlockSessions(n) ==
    {Session(KernelConfig_default, 0, <<BlockRequest(stmts, sep)>>) :
         stmts \in UNION {[1..m -> StatementPool] : m \in 1..n}, sep \in Separators}

\* the blocks a return is written in: of a function, of a kernel, and of
\* an if statement in a kernel
ReturnContexts == {"fn", "kernel", "if"}

\* `return;` and a bare `return`
ReturnForms == {<<"return", ";">>, <<"return">>}

ReturnSource(context, form) ==
    CASE context = "fn" -> <<"fn", "f", "(", ")", "{">> \o form \o <<"}">>
      [] context = "kernel" -> <<"kernel", "k", "(", ")", "{">> \o form \o <<"}">>
      [] context = "if" ->
            <<"kernel", "k", "(", ")", "{", "if", "a", "{">> \o form \o <<"}", "}">>

\* a request to parse a return with no value, with how it was written
ReturnRequest(context, form) ==
    [kind |-> "parse", source |-> ReturnSource(context, form), context |-> context,
     form |-> form]

ReturnSessions ==
    {Session(KernelConfig_default, 0, <<ReturnRequest(context, form)>>) :
         context \in ReturnContexts, form \in ReturnForms}

SourcePool(n) == LexSources \cup TokenSources(n) \cup RichSources

SourceSessions(n) ==
    {Session(KernelConfig_default, 0, <<ParseRequest(source)>>) : source \in SourcePool(n)}

InitSource ==
    InitOf(SourceSessions(MaxTokens) \cup OperatorSessions(MaxOps)
               \cup BlockSessions(MaxStmts) \cup ReturnSessions
               \cup AttrSessions(MaxAttrs) \cup SectionsSessions(MaxSections))

NextSource == Parse

SpecSource == InitSource /\ [][NextSource]_vars

----------------------------------------------------------------------------
(* Properties of Flare::compile_from_string, checked under SpecSource.     *)

Compiled == last.kind = "parse"

HoldsBadLexeme(source) == \E i \in 1..Len(source) : source[i] \in BadLexemes

\* C15: for every source text that holds a character starting no token or
\* an integer literal too large for a 64-bit signed integer,
\* compile_from_string returns Err(UnexpectedChar) or Err(InvalidToken) to
\* the caller; it never panics.
C15_LexErrorsReturned ==
    (Compiled /\ HoldsBadLexeme(last.source)) =>
        /\ ~result.ok
        /\ result.err.kind \in {"UnexpectedChar", "InvalidToken"}

ParseOutcome(r) == IF r.ok THEN "Ok" ELSE r.err.kind

\* C16: for every token sequence, including one that ends at any point
\* inside a kernel header, the parser finishes with Ok(Program),
\* UnexpectedToken or UnexpectedEof; it never indexes the token buffer at or
\* beyond its length.
C16_NoIndexPastBuffer ==
    (Compiled /\ ~HoldsBadLexeme(last.source)) =>
        ParseOutcome(result) \in {"Ok", "UnexpectedToken", "UnexpectedEof"}

----------------------------------------------------------------------------
(* The spans of a Program. *)

RECURSIVE SourceLength(_)
\* the length of the text whose lexemes are one space apart
SourceLength(lexemes) ==
    IF Len(lexemes) = 0 THEN 0
    ELSE IF Len(lexemes) = 1 THEN Len(lexemes[1])
    ELSE Len(lexemes[1]) + 1 + SourceLength(Tail(lexemes))

SpansOfEach(nodes) == {nodes[i].span : i \in 1..Len(nodes)}

\* the expressions an expression holds
ExprKids(e) ==
    CASE e.tag = "Binary" -> <<e.left, e.right>>
      [] e.tag \in {"Unary", "Cast"} -> <<e.expr>>
      [] e.tag = "Call" -> <<e.func>> \o e.args
      [] e.tag = "Member" -> <<e.object>>
      [] e.tag = "Index" -> <<e.object>> \o e.indices
      [] e.tag = "Range" -> e.start \o e.end
      [] e.tag = "Array" -> e.elements
      [] e.tag = "TensorInit" -> e.shape
      [] e.tag = "If" -> <<e.condition, e.then_branch>> \o e.else_branch
      [] e.tag \in {"Assign", "CompoundAssign"} -> <<e.target, e.value>>
      [] OTHER -> <<>>

\* the expressions a statement holds
StmtExprs(s) ==
    CASE s.tag \in {"Let", "Const"} -> <<s.value>>
      [] s.tag \in {"Var", "Return"} -> s.value
      [] s.tag \in {"If", "While"} -> <<s.condition>>
      [] s.tag = "For" -> <<s.iterator>>
      [] s.tag = "Expr" -> <<s.expr>>
      [] s.tag = "LoadShared" -> <<s.src>>
      [] s.tag = "Function" -> <<s.body>>
      [] s.tag = "Kernel" ->
            Flatten(s.kernel.grid) \o Flatten(s.kernel.block)
                \o Flatten([i \in 1..Len(Flatten(s.kernel.shared_memory)) |->
                                Flatten(s.kernel.shared_memory)[i].shape])
      [] OTHER -> <<>>

\* the statements a statement holds
StmtKids(s) ==
    CASE s.tag = "If" -> <<s.then_branch>> \o s.else_branch
      [] s.tag \in {"While", "For"} -> <<s.body>>
      [] s.tag = "Block" -> s.statements
      [] s.tag = "Kernel" -> Flatten(s.kernel.compute) \o s.kernel.body
      [] OTHER -> <<>>

\* the spans a statement stores outside its statements and expressions
StmtOwnSpans(s) ==
    CASE s.tag = "Function" -> {s.span} \cup SpansOfEach(s.params)
      [] s.tag = "Kernel" ->
            {s.kernel.span} \cup SpansOfEach(s.kernel.params)
                \cup SpansOfEach(s.kernel.attributes)
                \cup SpansOfEach(Flatten(s.kernel.shared_memory))
      [] s.tag = "Fusion" -> {s.fusion.span}
      [] s.tag = "Schedule" -> {s.schedule.span}
      [] OTHER -> {s.span}

RECURSIVE ExprSpans(_)
RECURSIVE StmtSpans(_)

ExprSpans(e) ==
    {e.span}
        \cup UNION {ExprSpans(ExprKids(e)[i]) : i \in 1..Len(ExprKids(e))}
        \cup (IF e.tag = "Block"
              THEN UNION {StmtSpans(e.statements[i]) : i \in 1..Len(e.statements)}
              ELSE {})

StmtSpans(s) ==
    StmtOwnSpans(s)
        \cup UNION {ExprSpans(StmtExprs(s)[i]) : i \in 1..Len(StmtExprs(s))}
        \cup UNION {StmtSpans(StmtKids(s)[i]) : i \in 1..Len(StmtKids(s))}

ProgramSpans(program) ==
    {program.span} \cup UNION {StmtSpans(program.items[i]) : i \in 1..Len(program.items)}

\* C17: every span stored in a successfully parsed Program satisfies
\* 0 <= start <= end <= length of the source text.
C17_SpansWithinSource ==
    (Compiled /\ result.ok) =>
        \A span \in ProgramSpans(result.val) :
            0 <= span[1] /\ span[1] <= span[2] /\ span[2] <= SourceLength(last.source)

\* the kernel with an attribute, parameters and the sections of its header
\* has parsed
C17_Witness ==
    /\ Compiled
    /\ result.ok
    /\ last.source = RichKernelSource
    /\ Cardinality(ProgramSpans(result.val)) >= 10

----------------------------------------------------------------------------
(* The tree of an expression. *)

RECURSIVE Show(_)

ShowEach(exprs) == Join([i \in 1..Len(exprs) |-> Show(exprs[i])], ", ")

\* an expression with every operator application in parentheses
Show(e) ==
    CASE e.tag = "Ident" -> e.name
      [] e.tag = "IntLiteral" -> I64ToString(e.val)
      [] e.tag = "Binary" -> "(" \o Show(e.left) \o " " \o e.op \o " " \o Show(e.right) \o ")"
      [] e.tag = "Assign" -> "(" \o Show(e.target) \o " = " \o Show(e.value) \o ")"
      [] e.tag = "CompoundAssign" ->
            "(" \o Show(e.target) \o " " \o e.op \o "= " \o Show(e.value) \o ")"
      [] e.tag = "Range" -> "(" \o ShowEach(e.start) \o " .. " \o ShowEach(e.end) \o ")"
      [] e.tag = "Unary" -> "(" \o e.op \o " " \o Show(e.expr) \o ")"
      [] e.tag = "Call" -> Show(e.func) \o "(" \o ShowEach(e.args) \o ")"
      [] e.tag = "Index" -> Show(e.object) \o "[" \o ShowEach(e.indices) \o "]"
      [] e.tag = "Member" -> Show(e.object) \o "." \o e.field
      [] e.tag = "Array" -> "[" \o ShowEach(e.elements) \o "]"
      [] OTHER -> "<" \o e.tag \o ">"

\* the tree of an operand: postfix operators bind before prefix operators
OperandTree(form, x) ==
    CASE form = "plain" -> x
      [] form = "neg" -> "(Neg " \o x \o ")"
      [] form = "not_neg" -> "(Not (Neg " \o x \o "))"
      [] form = "postfix" -> x \o "(u).f"
      [] form = "neg_index" -> "(Neg " \o x \o "[u])"

LowestLevel(ops, lo, hi) ==
    CHOOSE level \in {InfixOps[ops[i]].level : i \in lo..hi} :
        \A i \in lo..hi : level <= InfixOps[ops[i]].level

\* the operator applied last among ops[lo..hi]: of the lowest level there,
\* the first one for assignment and the last one for the other levels
RootAt(ops, lo, hi, level) ==
    IF level = AssignLevel
    THEN CHOOSE k \in lo..hi :
             /\ InfixOps[ops[k]].level = level
             /\ \A j \in lo..(k - 1) : InfixOps[ops[j]].level # level
    ELSE CHOOSE k \in lo..hi :
             /\ InfixOps[ops[k]].level = level
             /\ \A j \in (k + 1)..hi : InfixOps[ops[j]].level # level

RECURSIVE PrecedenceTree(_, _, _, _)

SplitTree(ops, form, lo, hi, k) ==
    "(" \o PrecedenceTree(ops, form, lo, k) \o " " \o InfixOps[ops[k]].show \o " "
        \o PrecedenceTree(ops, form, k + 1, hi) \o ")"

\* the tree the precedence order fixes for operands lo..hi and the
\* operators between them
PrecedenceTree(ops, form, lo, hi) ==
    IF lo = hi THEN OperandTree(form, OperandNames[lo])
    ELSE SplitTree(ops, form, lo, hi, RootAt(ops, lo, hi - 1, LowestLevel(ops, lo, hi - 1)))

ParsedValue == result.val.items[1].value

OfOperators(request) == "ops" \in DOMAIN request

\* C18: for every expression built from the binary, unary and assignment
\* operators, the parser builds the tree fixed by the precedence order
\* assignment < logical-or < logical-and < equality < comparison < range <
\* additive < multiplicative < unary < postfix, with the binary levels
\* associating to the left and assignment to the right.
C18_PrecedenceTree ==
    (Compiled /\ OfOperators(last)) =>
        /\ result.ok
        /\ Show(ParsedValue) = PrecedenceTree(last.ops, last.form, 1, Len(last.ops) + 1)

\* `- a [ u ] - - b [ u ] * - c [ u ]` has been parsed: both levels, the
\* prefix and the postfix operators
C18_Witness ==
    /\ Compiled
    /\ last.source = ExprSource(<<"-", "*">>, "neg_index")
    /\ result.ok
    /\ Show(ParsedValue) = "((Neg a[u]) Sub ((Neg b[u]) Mul (Neg c[u])))"

----------------------------------------------------------------------------
(* The statements of a block. *)

ShowStmt(s) ==
    CASE s.tag = "Expr" -> Show(s.expr)
      [] s.tag = "Let" -> "let " \o s.name \o " = " \o Show(s.value)
      [] s.tag = "Return" -> "return " \o ShowEach(s.value)
      [] OTHER -> "<" \o s.tag \o ">"

\* the statements of the block of the function parsed, or the error
BlockStatements(r) ==
    IF r.ok
    THEN [i \in 1..Len(r.val.items[1].body.statements) |->
              ShowStmt(r.val.items[1].body.statements[i])]
    ELSE <<"Err(" \o r.err.kind \o ")">>

OfStatements(request) == "stmts" \in DOMAIN request

\* C19: for every sequence of statements in a block, the parser yields the
\* same list of statements whether consecutive statements are separated by
\* `;` or only by a newline, including when the following statement begins
\* with `(`, `[` or `-`.
C19_NewlineSeparates ==
    (Compiled /\ OfStatements(last)) =>
        BlockStatements(result)
            = BlockStatements(compile_from_string(BlockSource(last.stmts, ";")))

OfReturn(request) == "context" \in DOMAIN request

\* the statements of the block the return was written in
ReturnBlock(program, context) ==
    CASE context = "fn" -> program.items[1].body.statements
      [] context = "kernel" -> program.items[1].kernel.body
      [] context = "if" -> program.items[1].kernel.body[1].then_branch.statements

\* C20: a return with no value is accepted both when written `return;` and
\* when written as a bare `return` directly followed by the closing `}` of
\* its block, and in both cases the parser yields a Return statement with
\* no value.
C20_BareReturn ==
    (Compiled /\ OfReturn(last)) =>
        /\ result.ok
        /\ Len(ReturnBlock(result.val, last.context)) = 1
        /\ ReturnBlock(result.val, last.context)[1].tag = "Return"
        /\ ReturnBlock(result.val, last.context)[1].value = None

----------------------------------------------------------------------------
(* The attributes of a kernel. *)

OfAttributes(request) == "attrs" \in DOMAIN request

\* the arguments an attribute written with the lexemes `args` holds
WrittenArgs(args) ==
    IF Len(args) <= 2 THEN <<>>
    ELSE <<[tag |-> "IntLiteral", val |-> I64(4)], [tag |-> "Ident", val |-> "x"]>>

\* name and arguments of each attribute of a list
AttrsHeld(attributes) ==
    [i \in 1..Len(attributes) |->
         [name |-> attributes[i].name, args |-> attributes[i].args]]

\* C21: for every attribute written `@name` or `@name(args)` directly
\* before a kernel, whether name is an ordinary identifier or one of the
\* fixed annotation markers such as `@optimize` or `@fusion_point`, parsing
\* succeeds and the attribute list of that kernel holds the attribute, all
\* attributes in source order.
C21_AttributesAttach ==
    (Compiled /\ OfAttributes(last)) =>
        /\ result.ok
        /\ AttrsHeld(result.val.items[1].kernel.attributes)
               = [i \in 1..Len(last.attrs) |->
                      [name |-> last.attrs[i].name, args |-> WrittenArgs(last.attrs[i].args)]]

----------------------------------------------------------------------------
(* The sections of a kernel. *)

OfSections(request) == "sections" \in DOMAIN request

\* what a section of the KernelDef holds, named as in SectionPieces
SectionHolds(kernel, kind) ==
    IF kernel[kind] = None THEN None
    ELSE CASE kind \in {"grid", "block"} ->
            Some([i \in 1..Len(Unwrap(kernel[kind])) |-> Show(Unwrap(kernel[kind])[i])])
      [] kind = "shared_memory" ->
            Some([i \in 1..Len(Unwrap(kernel[kind])) |-> Unwrap(kernel[kind])[i].name])
      [] kind = "compute" ->
            Some([i \in 1..Len(Unwrap(kernel[kind])) |-> ShowStmt(Unwrap(kernel[kind])[i])])

\* the positions at which the pieces name the kind
Occurrences(pieces, kind) == {i \in 1..Len(pieces) : pieces[i].kind = kind}

\* what the last piece of the kind holds, None when no piece names it
LastWritten(pieces, kind) ==
    IF Occurrences(pieces, kind) = {} THEN None
    ELSE Some(pieces[CHOOSE i \in Occurrences(pieces, kind) :
                         \A j \in Occurrences(pieces, kind) : j <= i].holds)

\* C28: a kernel body may name the same section kind (grid, block,
\* shared_memory, compute) more than once: parsing still succeeds, the
\* resulting KernelDef holds at most one section of each kind, and that
\* section is the last occurrence in source order, the earlier occurrences
\* being dropped without any error.
C28_LastSectionWins ==
    (Compiled /\ OfSections(last)) =>
        /\ result.ok
        /\ result.val.items[1].kernel.body = <<>>
        /\ \A kind \in SectionKinds :
               SectionHolds(result.val.items[1].kernel, kind)
                   = LastWritten(last.sections, kind)

\* a kernel naming grid three times has been parsed
C28_Witness ==
    /\ Compiled
    /\ OfSections(last)
    /\ Cardinality(Occurrences(last.sections, "grid")) = 3
    /\ last.sections[1].holds # last.sections[3].holds
    /\ result.ok
    /\ SectionHolds(result.val.items[1].kernel, "grid") = Some(last.sections[3].holds)

----------------------------------------------------------------------------
(* Inputs: statements written in a kernel, parsed and then handed to a     *)
(* StmtGenerator.                                                          *)

\* statements whose emission fails, and two that emit
FailingStatements ==
    { <<"var", "x", ";">>,
      <<"var", "x", ":", "Foo", ";">>,
      <<"var", "x", ":", "Vector", "<", "f32", ">", ";">>,
      <<"var", "x", ":", "Foo", "=", "1", ";">>,
      <<"var", "x", "=", "\"s\"", ";">>,
      <<"let", "x", ":", "Foo", "=", "1", ";">>,
      <<"let", "x", "=", "\"s\"", ";">>,
      <<"const", "x", ":", "Foo", "=", "1", ";">>,
      <<"return", "0", "..", "n", ";">>,
      <<"a", "=", "\"s\"", ";">>,
      <<"for", "i", "in", "xs", "{", "}">>,
      <<"for", "i", "in", "0", "..", "n", "{", "var", "y", ";", "}">>,
      <<"while", "\"s\"", "{", "}">>,
      <<"while", "c", "{", "let", "y", "=", "\"s\"", ";", "}">>,
      <<"if", "c", "{", "var", "y", ":", "Foo", ";", "}">>,
      <<"if", "c", "{", "}", "else", "{", "let", "y", "=", "\"s\"", ";", "}">>,
      <<"{", "a", ";", "{", "var", "y", ";", "}", "}">>,
      <<"fn", "g", "(", "a", ":", "Foo", ")", "{", "a", "}">>,
      <<"fn", "g", "(", ")", "->", "Foo", "{", "a", "}">>,
      <<"fn", "g", "(", ")", "{", "a", "}">>,
      <<"load_shared", "(", "t", ",", "\"s\"", ")", ";">>,
      <<"var", "x", ":", "f32", ";">>,
      <<"let", "x", "=", "1", ";">> }

\* a kernel whose body holds the statement after a first statement
StatementSource(stmt) ==
    <<"kernel", "k", "(", ")", "{", "a", ";">> \o stmt \o <<"}">>

EmitBodyRequest(item) == [kind |-> "emit_body", item |-> item]

\* parse the kernel, then emit the statement written second in its body
EmitSessions(level, stmts) ==
    {Session(KernelConfig_default, level,
             <<[kind |-> "parse", source |-> StatementSource(stmt), written |-> stmt],
               EmitBodyRequest(2)>>) : stmt \in stmts}

HasBody(item) ==
    /\ parsed.ok
    /\ Len(parsed.val.items) = 1
    /\ parsed.val.items[1].tag = "Kernel"
    /\ item \in 1..Len(parsed.val.items[1].kernel.body)

\* StmtGenerator::generate on a statement of the body of the parsed kernel
EmitBody ==
    /\ Calls("emit_body")
    /\ HasBody(Head(queue).item)
    /\ StmtReturns(StmtGenerator_generate(parsed.val.items[1].kernel.body[Head(queue).item],
                                          indent_level))
    /\ last' = [kind |-> "emit_body",
                stmt |-> parsed.val.items[1].kernel.body[Head(queue).item],
                level |-> indent_level, request |-> last]
    /\ queue' = Tail(queue)
    /\ UNCHANGED <<lexer, parser, config, stmt_gen, parsed>>

DedentRequest == [kind |-> "dedent"]

\* a StmtGenerator at the level on which dedent is called twice
DedentSessions(level) ==
    {Session(KernelConfig_default, level, <<DedentRequest, DedentRequest>>)}

\* StmtGenerator::dedent()
Dedent ==
    /\ Calls("dedent")
    /\ indent_level' = dedent(indent_level)
    /\ result' = Ok(<<>>)
    /\ last' = [kind |-> "dedent", level |-> indent_level]
    /\ queue' = Tail(queue)
    /\ UNCHANGED <<lexer, parser, config, stmt_gen, parsed>>

\* an if-expression in value position: the statement it is the value of,
\* with the text that statement is emitted as up to the value
IfPositions ==
    { [lexemes |-> <<"let", "x", "=">>, text |-> "const auto x = "],
      [lexemes |-> <<"var", "x", "=">>, text |-> "auto x = "],
      [lexemes |-> <<"return">>, text |-> "return "],
      [lexemes |-> <<"y", "=">>, text |-> "y = "] }

\* the if-expression, with the ternary the claim gives for it
IfValues ==
    { [lexemes |-> <<"if", "c", "{", "a", "}", "else", "{", "b", "}">>,
       text |-> "(c ? a : b)", else |-> TRUE],
      [lexemes |-> <<"if", "c", "<", "n", "{", "1", "}", "else", "{", "a", "+", "b", "}">>,
       text |-> "((c < n) ? 1 : (a + b))", else |-> TRUE],
      [lexemes |-> <<"if", "c", "{", "a", "}">>, text |-> "", else |-> FALSE] }

IfValueSessions(level) ==
    {Session(KernelConfig_default, level,
             <<[kind |-> "parse",
                source |-> StatementSource(position.lexemes \o value.lexemes \o <<";">>),
                position |-> position, value |-> value],
               EmitBodyRequest(2)>>) : position \in IfPositions, value \in IfValues}

\* a node with an operand: the lexemes before and after the operand
OperandHosts ==
    { [tag |-> "Binary", before |-> <<>>, after |-> <<"+", "c">>],
      [tag |-> "Binary", before |-> <<"c", "*">>, after |-> <<>>],
      [tag |-> "Unary", before |-> <<"-">>, after |-> <<>>],
      [tag |-> "Index", before |-> <<>>, after |-> <<"[", "i", "]">>],
      [tag |-> "Member", before |-> <<>>, after |-> <<".", "x">>],
      [tag |-> "Call", before |-> <<>>, after |-> <<"(", "1", ")">>] }

\* the compound operands that parse to expressions which are emitted,
\* written inside parentheses
WrittenOperands ==
    { [tag |-> "Binary", lexemes |-> <<"a", "+", "b">>],
      [tag |-> "Unary", lexemes |-> <<"!", "a">>],
      [tag |-> "Assign", lexemes |-> <<"a", "=", "b">>],
      [tag |-> "CompoundAssign", lexemes |-> <<"a", "+=", "b">>] }

\* the statement `<before> ( <operand> ) <after> ;`
OperandStatement(host, operand) ==
    host.before \o <<"(">> \o operand.lexemes \o <<")">> \o host.after \o <<";">>

OperandSessions(level) ==
    {Session(KernelConfig_default, level,
             <<[kind |-> "parse", source |-> StatementSource(OperandStatement(host, operand)),
                host |-> host, operand |-> operand],
               EmitBodyRequest(2)>>) : host \in OperandHosts, operand \in WrittenOperands}

InitEmit ==
    InitOf(UNION {EmitSessions(level, FailingStatements) \cup IfValueSessions(level)
                      \cup OperandSessions(level) \cup DedentSessions(level) : level \in 0..MaxIndent})

NextEmit == Parse \/ EmitBody \/ Dedent

SpecEmit == InitEmit /\ [][NextEmit]_vars

----------------------------------------------------------------------------
(* Properties of StmtGenerator on parsed statements, checked under         *)
(* SpecEmit.                                                               *)

BodyEmitted == last.kind = "emit_body"

\* Stmt::span(): an expression statement has the span of its expression
StmtSpan(stmt) == IF stmt.tag = "Expr" THEN stmt.expr.span ELSE stmt.span

Within(inner, outer) ==
    outer[1] <= inner[1] /\ inner[1] <= inner[2] /\ inner[2] <= outer[2]

\* C22: every CodegenError other than FormatError returned while emitting
\* a statement carries the source span of the offending node, a range lying
\* inside that statement; in particular the error for a `var` with neither
\* type nor initializer, and a type error in `var x: T` written without
\* initializer, carry the span of that var statement and not the empty
\* range 0..0.
C22_ErrorSpanInStatement ==
    (BodyEmitted /\ ~result.ok /\ result.err.kind # "FormatError") =>
        /\ Within(result.err.span, StmtSpan(last.stmt))
        /\ (last.stmt.tag = "Var" /\ last.stmt.value = None) =>
               result.err.span = last.stmt.span

OfIfValue == BodyEmitted /\ "value" \in DOMAIN last.request

\* C24: an if-expression with an else branch that stands in value position
\* in the source (for example `let x = if c { a } else { b }`) is emitted
\* as the ternary `(c ? a : b)`; an if-expression with no else branch
\* yields an error.
C24_IfValueTernary ==
    OfIfValue =>
        IF last.request.value.else
        THEN /\ result.ok
             /\ result.val = << get_indent(last.level) \o last.request.position.text
                                   \o last.request.value.text \o ";" >>
        ELSE ~result.ok

Dedented == last.kind = "dedent"

\* C25: StmtGenerator.generate leaves the indentation level exactly as it
\* found it, for every statement and every nesting depth, both when it
\* returns text and when it returns an error raised inside the body of a
\* nested if, while, for, block or function; dedent at level 0 leaves the
\* level at 0.
C25_IndentLevelRestored ==
    /\ BodyEmitted => indent_level = last.level
    /\ (Dedented /\ last.level = 0) => indent_level = 0

----------------------------------------------------------------------------
(* The grouping of emitted expressions, checked under SpecEmit.            *)

CompoundTags == {"Binary", "Unary", "If", "Assign", "CompoundAssign"}

\* the operands whose text the node writes with nothing of its own around
\* it: both sides of a Binary, the operand of a Unary, the object of an
\* Index or a Member, the callee of a Call
BoundOperands(expr) ==
    CASE expr.tag = "Binary" -> <<expr.left, expr.right>>
      [] expr.tag = "Unary" -> <<expr.expr>>
      [] expr.tag \in {"Index", "Member"} -> <<expr.object>>
      [] expr.tag = "Call" -> <<expr.func>>
      [] OTHER -> <<>>

\* the expressions directly under an expression
SubExprs(expr) ==
    CASE expr.tag = "Call" -> <<expr.func>> \o expr.args
      [] expr.tag = "Index" -> <<expr.object>> \o expr.indices
      [] expr.tag = "Array" -> expr.elements
      [] expr.tag \in {"Assign", "CompoundAssign"} -> <<expr.target, expr.value>>
      [] expr.tag = "Cast" -> <<expr.expr>>
      [] OTHER -> BoundOperands(expr)

\* how many of the first n characters of the text are the character
CountOf(char, text, n) == Cardinality({i \in 1..n : SubSeq(text, i, i) = char})

\* how many parentheses are open after the first n characters of the text
ParenDepth(text, n) == CountOf("(", text, n) - CountOf(")", text, n)

\* the text is one parenthesised group: the parenthesis it opens with is
\* closed by its last character
Enclosed(text) ==
    /\ Len(text) >= 2
    /\ \A n \in 1..(Len(text) - 1) : ParenDepth(text, n) > 0
    /\ ParenDepth(text, Len(text)) = 0

RECURSIVE KeepsGrouping(_)
\* every compound operand that is emitted is emitted as one group, in the
\* expression and in every expression under it
KeepsGrouping(expr) ==
    /\ \A i \in 1..Len(BoundOperands(expr)) :
           (/\ BoundOperands(expr)[i].tag \in CompoundTags
            /\ ExprGenerator_generate(BoundOperands(expr)[i]).ok)
               => Enclosed(ExprGenerator_generate(BoundOperands(expr)[i]).val)
    /\ \A i \in 1..Len(SubExprs(expr)) : KeepsGrouping(SubExprs(expr)[i])

OfOperand == BodyEmitted /\ "operand" \in DOMAIN last.request

\* C29: the text emitted for an expression keeps the grouping of its AST:
\* whenever a Binary, Unary, Index, Member or Call node has a compound
\* operand (Binary, Unary, If, Assign or CompoundAssign), the operand's
\* text is enclosed in its own parentheses; this covers a parenthesised
\* assignment used as an operand, as in `(a = b) + c`.
C29_OperandsEnclosed ==
    (BodyEmitted /\ result.ok /\ last.stmt.tag = "Expr") => KeepsGrouping(last.stmt.expr)

----------------------------------------------------------------------------
(* Inputs: source texts read token by token through Lexer::peek.           *)

\* two attributes written `@name`, a marker, and a kernel on three lines
LexerKernelSource ==
    <<"@tuned", "(", "4", ",", "\"s\"", ")", "\n", "@optimize", "\n",
      "kernel", "k", "(", "a", ":", "f32", ")", "{", "\n",
      "let", "x", "=", "2.50", "<=", "a", ";", "\n", "}">>

LexerSources == LexSources \cup {LexerKernelSource, RichItemsSource, <<>>, <<"\n">>}

PeekRequest == [kind |-> "peek"]

\* a Lexer on the input and `calls` calls of peek
LexerSession(input, calls) ==
    [Session(KernelConfig_default, 0, [i \in 1..calls |-> PeekRequest])
         EXCEPT !.input = input]

\* as many calls as the input has lexemes, and three more
LexerSessions == {LexerSession(input, Len(input) + 3) : input \in LexerSources}

PeeksMade == IF last.kind = "peek" THEN last.calls ELSE 0

\* Lexer::peek(); a panic ends the caller
LexerPeek ==
    /\ Calls("peek")
    /\ result' = Returned(Lexer_peek(lexer))
    /\ lexer' = Lexer_peek(lexer).lexer
    /\ last' = [kind |-> "peek", calls |-> PeeksMade + 1, previous |-> result]
    /\ queue' = IF Lexer_peek(lexer).ok THEN Tail(queue) ELSE <<>>
    /\ UNCHANGED <<parser, config, stmt_gen, indent_level, parsed>>

InitLexer == InitOf(LexerSessions)

NextLexer == LexerPeek

SpecLexer == InitLexer /\ [][NextLexer]_vars

----------------------------------------------------------------------------
(* Properties of Lexer::peek, checked under SpecLexer.                     *)

Peeked == last.kind = "peek"

\* the source text: the lexemes one space apart
SourceText(lexemes) == Join(lexemes, " ")

\* where the token returned by the call before ended: the start of the
\* text before the first call, its end once None has been returned
PreviousEnd ==
    IF last.calls = 1 THEN 0
    ELSE IF last.previous.val = None THEN Len(SourceText(lexer.input))
    ELSE Unwrap(last.previous.val).span[2]

\* the text from byte `from` up to byte `to`
TextBetween(text, from, to) == SubSeq(text, from + 1, to)

\* the token starts where the previous one ended or one space after, is
\* not empty, and its text is the source text at its span
NextTokenOf(token, text, end) ==
    /\ end <= token.span[1]
    /\ token.span[1] < token.span[2]
    /\ token.span[2] <= Len(text)
    /\ TextBetween(text, end, token.span[1]) \in {"", " "}
    /\ token.text = TextBetween(text, token.span[1], token.span[2])

\* C23: successive calls to Lexer::peek return the tokens of the source one
\* by one in source order, each call consuming the token it returns; every
\* returned token's text equals the source substring at its span, the
\* spans are increasing and do not overlap, and after the last token peek
\* returns None.
C23_PeekYieldsTokens ==
    (Peeked /\ ~HoldsBadLexeme(lexer.input)) =>
        /\ result.ok
        /\ (result.val = None) = (PreviousEnd = Len(SourceText(lexer.input)))
        /\ result.val # None =>
               NextTokenOf(Unwrap(result.val), SourceText(lexer.input), PreviousEnd)

\* every token of the three-line kernel has been returned, and then None
C23_Witness ==
    /\ Peeked
    /\ lexer.input = LexerKernelSource
    /\ last.calls = Len(LexerKernelSource) + 2
    /\ result.val = None
    /\ last.previous.val # None
    /\ Unwrap(last.previous.val).kind = "RightBrace"

----------------------------------------------------------------------------
(* Inputs: several kernels handed to one KernelGenerator, one after        *)
(* another.                                                                *)

MaxCalls == 3

FailingLet == LetStmt("t", None, StringLiteral("s", <<30, 33>>), <<22, 34>>)

PlainLet == LetStmt("u", None, IntLiteral(I64(1), <<30, 31>>), <<22, 32>>)

HistoryKernel(grid, compute, body) ==
    KernelDef("k", <<>>, <<>>, None, grid, None, None, compute, body, <<>>, <<0, 60>>)

\* kernels that fail inside a nested body, fail before any statement or
\* succeed, one of them with nested statements
HistoryKernels ==
    { \* fails two bodies deep, in the then branch of an if
      HistoryKernel(None, None,
          <<IfStmt(Ident("c", <<14, 15>>), BlockStmt(<<FailingLet>>, <<20, 36>>), None,
                   <<11, 36>>)>>),
      \* fails in a while in a for of the compute section
      HistoryKernel(None,
          Some(<<ForStmt("i", RangeExpr(None, Some(Ident("n", <<16, 17>>)), <<14, 17>>),
                         WhileStmt(Ident("c", <<20, 21>>), FailingLet, <<18, 36>>),
                         <<11, 36>>)>>),
          <<PlainLet>>),
      \* fails validation: a grid of four dimensions
      HistoryKernel(Some([i \in 1..4 |-> IntLiteral(I64(1), <<i, i + 1>>)]), None,
                    <<PlainLet>>),
      \* succeeds, with a statement in a block in an if
      HistoryKernel(None, Some(<<PlainLet>>),
          <<IfStmt(Ident("c", <<14, 15>>), BlockStmt(<<PlainLet>>, <<20, 36>>),
                   Some(ReturnStmt(None, <<40, 47>>)), <<11, 47>>),
            PlainLet>>),
      HistoryKernel(None, None, <<>>) }

HistorySchedules == {None, Some(ScheduleBlock(Some("k"), <<Parallel>>, <<70, 90>>))}

HistoryRequests ==
    {GenerateRequest(kernel, schedule) :
         kernel \in HistoryKernels, schedule \in HistorySchedules}

\* one generator asked for up to n kernels in a row
HistorySessions(n) ==
    {Session(KernelConfig_default, 0, requests) :
         requests \in UNION {[1..m -> HistoryRequests] : m \in 1..n}}

InitHistory == InitOf(HistorySessions(MaxCalls))

NextHistory == Generate

SpecHistory == InitHistory /\ [][NextHistory]_vars

----------------------------------------------------------------------------
(* Properties of a KernelGenerator used several times, checked under       *)
(* SpecHistory.                                                            *)

\* the statements written directly in the kernel
TopLevelStatements(kernel) ==
    (IF IsSome(kernel.compute) THEN Unwrap(kernel.compute) ELSE <<>>) \o kernel.body

LinesOf(lines) == {lines[i] : i \in 1..Len(lines)}

\* what a generator that has made no call returns
FreshlyGenerated(kernel, schedule) ==
    Returned(KernelGenerator_generate(kernel, schedule, 0))

\* C26: the text or error that KernelGenerator.generate returns for a given
\* kernel and schedule is the same whatever sequence of generate calls was
\* made on the same generator before, including earlier calls that failed
\* part-way through a nested statement: top-level kernel statements are
\* always emitted at indentation level 1.
C26_GenerateIgnoresHistory ==
    Generated =>
        /\ result = FreshlyGenerated(last.kernel, last.schedule)
        /\ result.ok =>
               \A i \in 1..Len(TopLevelStatements(last.kernel)) :
                   LinesOf(StmtGenerator_generate(TopLevelStatements(last.kernel)[i], 1).val)
                       \subseteq LinesOf(result.val)

\* a kernel with nested statements has been emitted by a generator that an
\* earlier, failed call had left three levels deep
C26_Witness ==
    /\ Generated
    /\ last.level = 3
    /\ result.ok
    /\ Len(last.kernel.body) = 2
    /\ "            const auto u = 1;" \in LinesOf(result.val)
    /\ "    const auto u = 1;" \in LinesOf(result.val)

----------------------------------------------------------------------------
(* Inputs: a Parser moved to a cursor by calls of advance, then one turn   *)
(* of a parsing loop, or parse(), from there.                              *)

\* sources that end early, name no item, or repeat what a loop stops on
BrokenSources ==
    { <<"schedule", "{", "foo", "}">>, <<"schedule", "k", "{", "tile", "(", "16", ",">>,
      <<"kernel", "k", "(", ")", "{", "shared_memory", "{", "1", "}", "}">>,
      <<"@", "@", "tuned", "(", ")">>, <<"}", "}", ";", ";">>,
      <<"f", "(", "1", ",", ",", "2", ")", "[", "]">> }

\* sources that between them hold every loop of the parser
WholeSources ==
    { <<"@", "tuned", "(", "4", ")", "\n",
        "kernel", "k", "(", "a", ":", "f32", ")", "{", "\n",
        "grid", ":", "[", "n", ",", "1", "]", "\n",
        "shared_memory", "{", "t", ":", "[", "16", "]", "u", ":", "[", "4", ",", "4", "]", "}",
        "a", "[", "i", "]", "=", "f", "(", "1", ",", "2", ")", ";", "}">>,
      <<"kernel", "k", "(", ")", "{", "compute", "{", "if", "c", "{", "return", ";", "}",
        "}", "{", "x", ";", "y", "}", "}">>,
      <<"schedule", "k", "{", "tile", "(", "16", ",", "16", ")", ";", "threads", "(", "8",
        ")", "parallel", "}", "\n", "let", "z", "=", "[", "1", ",", "2.5", "]", ";">> }

CursorSources == WholeSources \cup BrokenSources \cup {<<>>}

AdvanceRequest == [kind |-> "advance"]

TurnRequest == [kind |-> "turn"]

ParserParseRequest == [kind |-> "parser_parse"]

\* a Parser on the source, `moves` calls of advance and then the call
CursorSession(source, moves, call) ==
    [Session(KernelConfig_default, 0, [i \in 1..moves |-> AdvanceRequest] \o <<call>>)
         EXCEPT !.input = source]

\* every cursor of every source, and one call of advance past the end
CursorSessions(sources) ==
    UNION {{CursorSession(source, moves, call) :
                moves \in 0..(Len(Parser_over(source).tokens) + 1),
                call \in {TurnRequest, ParserParseRequest}} : source \in sources}

\* the parser is left at the cursor the operation returned with
ParserReturns(r) ==
    /\ result' = Returned(r)
    /\ parser' = [parser EXCEPT !.current = r.pos]
    /\ queue' = Tail(queue)
    /\ UNCHANGED <<lexer, config, stmt_gen, indent_level, parsed>>

\* Parser::advance()
Advance ==
    /\ Calls("advance")
    /\ last' = [kind |-> "advance", loop |-> "", current |-> parser.current]
    /\ ParserReturns(advance(parser.tokens, parser.current))

\* one turn of a parsing loop whose condition holds at the cursor
LoopTurn ==
    /\ Calls("turn")
    /\ \E loop \in ParsingLoops :
           /\ loop_condition(loop, parser.tokens, parser.current)
           /\ last' = [kind |-> "turn", loop |-> loop, current |-> parser.current]
           /\ ParserReturns(Parser_turn(loop, parser.tokens, parser.current))

\* Parser::parse()
ParserParse ==
    /\ Calls("parser_parse")
    /\ last' = [kind |-> "parser_parse", loop |-> "", current |-> parser.current]
    /\ ParserReturns(Parser_call("parse", parser.tokens, parser.current))

InitCursor == InitOf(CursorSessions(CursorSources))

NextCursor == Advance \/ LoopTurn \/ ParserParse

SpecCursor == InitCursor /\ [][NextCursor]_vars

----------------------------------------------------------------------------
(* Properties of the parser's cursor, checked under SpecCursor.            *)

OnParser == last.kind \in {"advance", "turn", "parser_parse"}

\* C27: every call on the parser returns, with the cursor no lower than it
\* was and no higher than the number of tokens; and a turn of a parsing loop
\* that returns no error has consumed at least one token
C27_CursorAdvances ==
    OnParser =>
        /\ result.ok \in BOOLEAN
        /\ last.current <= parser.current
        /\ parser.current <= Len(parser.tokens)
        /\ (last.kind = "turn" /\ result.ok) => last.current < parser.current

\* a turn of the section loop from inside a kernel took a whole section
C27_Witness ==
    /\ last.kind = "turn"
    /\ last.loop = "sections"
    /\ last.current > 0
    /\ result.ok
    /\ parser.current >= last.current + 5
    /\ parser.current < Len(parser.tokens)

----------------------------------------------------------------------------
(* The bounds of the threadgroup size, checked under SpecKernel.           *)

\* a u32 below 2^16, which every cap of the configurations used is
FitsLimb(v) == v[2] = 0

\* x * y * z <= cap for components of at least 1, by dividing the cap
ProductWithin(size, cap) ==
    /\ \A i \in 1..3 : FitsLimb(size[i]) /\ size[i][1] >= 1
    /\ size[3][1] <= (cap[1] \div size[1][1]) \div size[2][1]

\* C30: for every kernel and every schedule, the threadgroup size (x, y, z)
\* returned by get_threadgroup_size has each component at least 1 and a
\* product x*y*z no larger than the configured max_threads_per_threadgroup,
\* also when the size comes from a `threads(x, y)` directive with large or
\* zero arguments.
C30_ThreadgroupSizeBounded ==
    (Sized /\ FitsLimb(config.max_threads_per_threadgroup)) =>
        /\ \A i \in 1..3 : ~LimbsZero(result.val[i])
        /\ ProductWithin(result.val, config.max_threads_per_threadgroup)

====
